---- MODULE Spec2Model ----
(***************************************************************************)
(* A model of the store scraper of src/universal.js: the normalisation     *)
(* stage (DataProcessor), the pattern-driven extractors (HTMLExtractor),   *)
(* the coordinate sweep (APIHandler.fetchWithCoordinateAPI) and the        *)
(* orchestrator (ScraperCLI.scrape).                                       *)
(*                                                                         *)
(* JavaScript values are modelled by what the code observes of them:       *)
(*   - a field of a store record is [k, v]: k = "undef" (undefined, null), *)
(*     k = "str" with v the sequence of its characters, or k = "num" (a    *)
(*     truthy value that is no string: a number or an object);             *)
(*   - a coordinate is "null", "zero" (the number 0) or "num" (any other   *)
(*     number);                                                            *)
(*   - a call that may throw returns [thrown, value].                      *)
(***************************************************************************)
EXTENDS Integers, Sequences, FiniteSets, TLC

VARIABLES
  \* DataProcessor called on its own: the list given, what the first call
  \* returned, what a second call on that returned, and which calls were made.
  dpIn, dpOut, dpOut2, dpPc,
  \* HTMLExtractor called on its own: the descriptor, the document (static
  \* and live), the live context, and what each mode returned.
  exPattern, exDoc, exCtx, exCheerio, exPuppeteer, exPc,
  \* APIHandler.fetchWithCoordinateAPI: where the call is, its apiInfo.apiTemplate,
  \* the land boxes the grid will hold, dynamicMapping, landBoxes.length, the
  \* index of the next box, consecutiveEmpty, the stores collected, the number
  \* of boxes requested, the number of calls of detectApiDataMapping, whether
  \* sleep(CONFIG.RATE_LIMIT_DELAY) ran after the last request of the sweep,
  \* newStores.length of the last box, and what the call returned.
  apiPc, apiTemplate, landCells, dynamicMapping, landBoxes, boxIndex,
  consecutiveEmpty, apiStores, requests, mappingCalls, rateSlept, newStoresLen, apiResult,
  \* ScraperCLI.scrape: where the call is, the site its url names, whether the
  \* free identifier `opts`
  \* resolves, this.browser, whether page.goto succeeded, whether the catch of
  \* scrape was entered, what the call gave its caller, htmlPattern,
  \* mainPageHtml, this._iframeContexts.length, the index of the next context
  \* of the show-more loop, allStores, and the list given to OutputHandler.save.
  pc, url, optsBound, browser, acquired, caught, result, htmlPattern, mainPageHtml,
  iframeContexts, ctxIndex, allStores, processed,
  \* and of the same call: allStores.length as logged at the end of Phase 3,
  \* what the call did to the page and asked of the API oracle, and apiInfo.
  foundHtml, effects, apiInfo,
  \* APIHandler.getValueByPath called on its own: obj, path, what the call
  \* returned, and whether it was made.
  gvObj, gvPath, gvOut, gvPc,
  \* The callback of ScriptDataExtractor.extract on one script element, whose
  \* text is sdPrefix, the first sdKeep characters of the object with the
  \* stores sdPayload, and sdSuffix; what the callback pushed, and whether it ran.
  sdPayload, sdPrefix, sdSuffix, sdKeep, sdOut, sdPc,
  \* APIHandler.generateCoordinateGrid: CONFIG.GRID_LAT_STEP and GRID_LNG_STEP,
  \* which cells the geocoder places in the ocean, lat and lng of the loops,
  \* every box built so far, the boxes pushed, and where the call is.
  latStep, lngStep, ocean, gridLat, gridLng, cells, boxes, gridPc,
  \* A detector of PatternDetector called on its own: which one, whether the
  \* html or the list of responses it is given is empty, the i of withRetry,
  \* the reply of the oracle, what the detector returned, and where the call is.
  orDetector, orEmpty, orAttempt, orReply, orOut, orPc,
  \* APIHandler.mapItemWithDynamicPattern called on its own: item, the path
  \* mapping holds for latitude and for longitude, the latitude and longitude
  \* of the store it returned, and whether the call was made.
  mpItem, mpMapping, mpStore, mpPc,
  \* withRetry called on its own: retries, whether each invocation of fn will
  \* throw, the i of the loop, the number of invocations of fn so far, the
  \* delays slept so far, what the call gave its caller, and where the call is.
  rtRetries, rtPlan, rtI, rtCalls, rtSleeps, rtOut, rtPc,
  \* The show-more loop of scrape run on its own: this._iframeContexts.length,
  \* the index of the context of the for loop, clicks, whether htmlPattern has
  \* a showMoreSelector, how the while loop of the context ended, what became
  \* of each context so far, and where the loop is.
  smContexts, smCtx, smClicks, smHasSelector, smStop, smLog, smPc,
  \* ScriptDataExtractor.extract on a document with several script elements:
  \* the elements, the i of $('script').each, stores, and where the call is.
  sbBlocks, sbI, sbStores, sbPc,
  \* Steps 5 and 6 of the callback of ScriptDataExtractor.extract on one
  \* parsed object: obj, what the steps pushed or that they threw, and whether
  \* they ran.
  ffObj, ffOut, ffPc,
  \* DataProcessor.calculateStats called on its own: stores, the index of the
  \* for loop, stats, and where the call is.
  csStores, csI, stats, csPc,
  \* The response callback of scrape: the responses the page emitted, where
  \* the callback of each is and how it ended, the apiResponses of the call,
  \* and the phase the orchestrator is in meanwhile.
  rsSeen, rsPc, rsEnd, apiResponses, rsPhase,
  \* The two loops of generateCoordinateGrid under a configuration of the
  \* environment: what GRID_LAT_STEP and GRID_LNG_STEP are set to, lat and lng
  \* of the loops, and where the call is.
  envLatStep, envLngStep, loopLat, loopLng, loopPc,
  \* The documents of a run of scrape, numbered as the page loads them: the
  \* one the page shows, mainPageHtml, postClickHtml, the htmlToAnalyze that
  \* Phase 3 reads, the number of iframes of the page, the document and the
  \* number of the frames in this._iframeContexts, the arguments of the calls
  \* of detectHTMLPattern, what Phase 3 read, and where the run is.
  livePage, mainSnapshot, postClickHtml, htmlToAnalyze, liveFrames, frameContexts,
  detectedOn, phase3Read, snapPc

dataVars == <<dpIn, dpOut, dpOut2, dpPc>>

extractVars == <<exPattern, exDoc, exCtx, exCheerio, exPuppeteer, exPc>>

sweepVars ==
  <<apiPc, apiTemplate, landCells, dynamicMapping, landBoxes, boxIndex,
    consecutiveEmpty, apiStores, requests, mappingCalls, rateSlept, newStoresLen, apiResult>>

scrapeVars ==
  <<pc, url, optsBound, browser, acquired, caught, result, htmlPattern, mainPageHtml,
    iframeContexts, ctxIndex, allStores, processed, foundHtml, effects, apiInfo>>

pathVars == <<gvObj, gvPath, gvOut, gvPc>>

\* The variables of the helpers that are called on their own.
scriptVars == <<sdPayload, sdPrefix, sdSuffix, sdKeep, sdOut, sdPc>>

gridVars == <<latStep, lngStep, ocean, gridLat, gridLng, cells, boxes, gridPc>>

oracleVars == <<orDetector, orEmpty, orAttempt, orReply, orOut, orPc>>

mapVars == <<mpItem, mpMapping, mpStore, mpPc>>

\* The variables of the further pieces that are run on their own.
retryVars == <<rtRetries, rtPlan, rtI, rtCalls, rtSleeps, rtOut, rtPc>>

clickVars == <<smContexts, smCtx, smClicks, smHasSelector, smStop, smLog, smPc>>

blockVars == <<sbBlocks, sbI, sbStores, sbPc>>

\* The variables of the pieces below the show-more loop.
parsedVars == <<ffObj, ffOut, ffPc>>

statsVars == <<csStores, csI, stats, csPc>>

responseVars == <<rsSeen, rsPc, rsEnd, apiResponses, rsPhase>>

loopVars == <<envLatStep, envLngStep, loopLat, loopLng, loopPc>>

gateVars ==
  <<livePage, mainSnapshot, postClickHtml, htmlToAnalyze, liveFrames, frameContexts,
    detectedOn, phase3Read, snapPc>>

lateVars == <<blockVars, parsedVars, statsVars, responseVars, loopVars, gateVars>>

\* Every other variable of the pieces above.
earlyVars ==
  <<dataVars, extractVars, sweepVars, scrapeVars, pathVars, scriptVars, gridVars,
    oracleVars, mapVars, retryVars, clickVars>>

moreVars == <<mapVars, retryVars, clickVars, lateVars>>

helperVars == <<pathVars, scriptVars, gridVars, oracleVars, moreVars>>

vars == <<dataVars, extractVars, sweepVars, scrapeVars, helperVars>>

\* ------------------------------------------------------------------ bounds

\* Longest candidate list handed to deduplicate.
MaxDedupLen == 2

\* Longest candidate list handed to preFilter.
MaxFilterLen == 2

\* Most elements of a document that match a valid item selector.
MaxItems == 1

\* Most land boxes of a grid swept on its own.
MaxBoxes == 32

\* Most land boxes of a grid swept within a run of scrape.
MaxRunBoxes == 1

\* Most iframe contexts of a page.
MaxFrames == 1

\* ------------------------------------------------------- CONFIG of the code

MAX_EMPTY_BOXES == 30

\* CONFIG.RETRY_COUNT
RETRY_COUNT == 3

\* `stores.length > 50` of the direct call.
DIRECT_CALL_MIN == 50

\* `allStores.length < 200` of the show-more and API phases.
SUFFICIENT_STORES == 200

\* ------------------------------------------------------------ JS values

Undef == [k |-> "undef", v |-> <<>>]

Str(s) == [k |-> "str", v |-> s]

\* A truthy value that is not a string (a number such as 7, an object).
NonStr == [k |-> "num", v |-> <<>>]

\* JavaScript truthiness of a field value: undefined, null and '' are falsy.
Truthy(f) == f.k = "num" \/ (f.k = "str" /\ f.v # <<>>)

\* JavaScript truthiness of a coordinate: null and 0 are falsy.
TruthyNum(c) == c = "num"

\* `x || ''`
OrEmpty(f) == IF Truthy(f) THEN f ELSE Str(<<>>)

\* String.prototype.toLowerCase on one character of the model's alphabet.
LowerChar(c) == IF c = "A" THEN "a" ELSE IF c = "B" THEN "b" ELSE c

\* String.prototype.toLowerCase.
toLowerCase(s) == [i \in 1..Len(s) |-> LowerChar(s[i])]

Store(n, a, c, lat, lng, src) ==
  [name |-> n, address |-> a, city |-> c, latitude |-> lat, longitude |-> lng,
   source |-> src]

Returned(v) == [thrown |-> FALSE, value |-> v]

Thrown == [thrown |-> TRUE, value |-> <<>>]

\* The sequences over S of length at most n.
SeqOfLen(S, n) == UNION {[1..m -> S] : m \in 0..n}

\* ---------------------------------------------------------- DataProcessor

\* The test of the filter callback of preFilter.
preFilterKeeps(s) ==
  Truthy(s.name)
  /\ (Truthy(s.address) \/ Truthy(s.city)
      \/ (TruthyNum(s.latitude) /\ TruthyNum(s.longitude)))

\* Mutant: `||` where the callback has `&&` after s.name.
preFilterAny(list) ==
  LET keeps(s) == Truthy(s.name) \/ Truthy(s.address) \/ Truthy(s.city)
                  \/ (TruthyNum(s.latitude) /\ TruthyNum(s.longitude))
  IN SelectSeq(list, keeps)

preFilter(list) == SelectSeq(list, preFilterKeeps)

\* `(store.f || '').toLowerCase()` throws a TypeError when store.f is truthy
\* and has no toLowerCase method.
keyThrows(s) ==
  OrEmpty(s.name).k # "str" \/ OrEmpty(s.address).k # "str" \/ OrEmpty(s.city).k # "str"

\* The template literal of deduplicate: the three lower-cased fields joined by "_".
storeKey(s) ==
  toLowerCase(OrEmpty(s.name).v) \o <<"_">> \o toLowerCase(OrEmpty(s.address).v)
  \o <<"_">> \o toLowerCase(OrEmpty(s.city).v)

\* One turn of the for loop of deduplicate: the Map, kept in insertion
\* order, after the record s; a turn that throws ends the loop.
dedupTurn(s, acc) ==
  IF acc.thrown THEN acc
  ELSE IF keyThrows(s) THEN Thrown
  ELSE LET key == storeKey(s) IN
       IF \E k \in 1..Len(acc.value) : acc.value[k].key = key
       THEN acc
       ELSE Returned(Append(acc.value, [key |-> key, store |-> s]))

\* The turns lo..hi of the for loop, in order.  The range is halved so that
\* a list of hundreds of records is evaluated in logarithmic depth.
RECURSIVE dedupRange(_, _, _, _)
dedupRange(list, lo, hi, acc) ==
  IF lo > hi THEN acc
  ELSE IF lo = hi THEN dedupTurn(list[lo], acc)
  ELSE LET mid == (lo + hi) \div 2
           left == dedupRange(list, lo, mid, acc)
       IN IF left.thrown THEN left ELSE dedupRange(list, mid + 1, hi, left)

\* The for loop of deduplicate from index i on, and the array made of the
\* values of the Map.
dedupLoop(list, i, map) ==
  LET done == dedupRange(list, i, Len(list), Returned(map)) IN
  IF done.thrown THEN Thrown
  ELSE Returned([k \in 1..Len(done.value) |-> done.value[k].store])

\* Mutant: the loop stops one record short.
deduplicateShort(list) ==
  dedupLoop(SubSeq(list, 1, Len(list) - 1), 1, <<>>)

\* Mutant: the Map entry is overwritten by every later record with the key.
RECURSIVE dedupLoopOverwrite(_, _, _)
dedupLoopOverwrite(list, i, map) ==
  IF i > Len(list) THEN Returned([k \in 1..Len(map) |-> map[k].store])
  ELSE IF keyThrows(list[i]) THEN Thrown
  ELSE LET key == storeKey(list[i]) IN
       IF \E k \in 1..Len(map) : map[k].key = key
       THEN dedupLoopOverwrite(list, i + 1,
              [k \in 1..Len(map) |->
                 IF map[k].key = key THEN [key |-> key, store |-> list[i]] ELSE map[k]])
       ELSE dedupLoopOverwrite(list, i + 1, Append(map, [key |-> key, store |-> list[i]]))

deduplicateOverwrite(list) == dedupLoopOverwrite(list, 1, <<>>)

deduplicate(list) == dedupLoop(list, 1, <<>>)

\* ---------------------------------------------------------- HTMLExtractor

(***************************************************************************)
(* A pattern descriptor is what JSON.parse made of the oracle's reply:     *)
(* NullPattern (the JSON value null) or an object.  A selector is observed *)
(* as one of                                                               *)
(*   "absent"    undefined or null          "empty"   the string ''        *)
(*   "text"      a valid selector           "attr"    a valid sel@attr     *)
(*   "invalid"   a string the selector engine rejects with a SyntaxError   *)
(*   "nonstring" a truthy value that is no string                          *)
(* and fields is "absent" or a map from field names to selectors.          *)
(* A document is the list of elements its item selector matches; an        *)
(* element carries the text a valid selector of each field resolves to.    *)
(***************************************************************************)
NullPattern == [null |-> TRUE]

Pattern(item, hasFields, nameSel, addrSel) ==
  [null |-> FALSE, itemSelector |-> item, hasFields |-> hasFields,
   fields |-> [name |-> nameSel, address |-> addrSel]]

FieldSelectors == {"absent", "empty", "text", "attr", "invalid", "nonstring"}

ItemSelectors == {"absent", "empty", "text", "invalid"}

\* `!selector`
SelectorFalsy(sel) == sel \in {"absent", "empty"}

\* HTMLExtractor.extractField: every fault inside the try yields ''.
extractField(element, field, selector) ==
  IF SelectorFalsy(selector) THEN Str(<<>>)
  ELSE IF selector \in {"invalid", "nonstring"} THEN Str(<<>>)
  ELSE Str(element[field])

\* The body of the .each callback: one store per matched element.
cheerioStore(element, pattern) ==
  Store(extractField(element, "name", pattern.fields.name),
        extractField(element, "address", pattern.fields.address),
        Undef, "null", "null", "html-cheerio")

\* `if (store.name || store.address)`
extractorKeeps(store) == Truthy(store.name) \/ Truthy(store.address)

\* Mutant: extractWithCheerio without the `!pattern` test of its guard.
extractWithCheerioNoNullTest(html, pattern) ==
  IF html.empty THEN Returned(<<>>)
  ELSE IF pattern.null THEN Thrown
  ELSE IF SelectorFalsy(pattern.itemSelector) THEN Returned(<<>>)
  ELSE IF pattern.itemSelector = "invalid" THEN Thrown
  ELSE IF Len(html.items) > 0 /\ ~pattern.hasFields THEN Thrown
  ELSE Returned(SelectSeq([i \in 1..Len(html.items) |-> cheerioStore(html.items[i], pattern)],
                          extractorKeeps))

\* HTMLExtractor.extractWithCheerio.  $(itemSelector) throws on a selector the
\* engine cannot parse; Object.entries(pattern.fields) throws a TypeError on
\* undefined or null, inside the callback and so only when an element matched.
extractWithCheerio(html, pattern) ==
  IF html.empty \/ pattern.null THEN Returned(<<>>)
  ELSE IF SelectorFalsy(pattern.itemSelector) THEN Returned(<<>>)
  ELSE IF pattern.itemSelector = "invalid" THEN Thrown
  ELSE IF Len(html.items) > 0 /\ ~pattern.hasFields THEN Thrown
  ELSE Returned(SelectSeq([i \in 1..Len(html.items) |-> cheerioStore(html.items[i], pattern)],
                          extractorKeeps))

puppeteerStore(element, pattern) ==
  [cheerioStore(element, pattern) EXCEPT !.source = "html-puppeteer"]

\* Mutant: extractWithPuppeteer without the try around $$eval.
extractWithPuppeteerNoCatch(ctx, live, pattern) ==
  IF pattern.null THEN Returned(<<>>)
  ELSE IF SelectorFalsy(pattern.itemSelector) THEN Returned(<<>>)
  ELSE IF ctx = "detached" \/ pattern.itemSelector = "invalid" THEN Thrown
  ELSE IF Len(live.items) > 0 /\ ~pattern.hasFields THEN Thrown
  ELSE Returned(SelectSeq([i \in 1..Len(live.items) |-> puppeteerStore(live.items[i], pattern)],
                          extractorKeeps))

\* HTMLExtractor.extractWithPuppeteer: the whole $$eval runs inside a try whose
\* catch returns [].  ctx is "page", "frame" or "detached" (a frame that went
\* away: $$eval rejects).
extractWithPuppeteer(ctx, live, pattern) ==
  IF pattern.null THEN Returned(<<>>)
  ELSE IF SelectorFalsy(pattern.itemSelector) THEN Returned(<<>>)
  ELSE IF ctx = "detached" \/ pattern.itemSelector = "invalid" THEN Returned(<<>>)
  ELSE IF Len(live.items) > 0 /\ ~pattern.hasFields THEN Returned(<<>>)
  ELSE Returned(SelectSeq([i \in 1..Len(live.items) |-> puppeteerStore(live.items[i], pattern)],
                          extractorKeeps))

Texts == {<<>>, <<"a">>}

Elements == [name : Texts, address : Texts]

EmptyHtml == [empty |-> TRUE, items |-> <<>>]

Html(items) == [empty |-> FALSE, items |-> items]

Documents == {EmptyHtml} \cup {Html(items) : items \in SeqOfLen(Elements, MaxItems)}

Patterns ==
  {NullPattern}
  \cup {Pattern(item, TRUE, n, a) : item \in ItemSelectors, n \in FieldSelectors,
                                    a \in FieldSelectors}
  \cup {Pattern(item, FALSE, "absent", "absent") : item \in ItemSelectors}

\* ------------------------------------------- APIHandler.getValueByPath

(***************************************************************************)
(* The values of a parsed response, by what property access and `&&`/`||`  *)
(* observe of them: null or undefined, '', a non-empty string, the number  *)
(* 0, a function (what the inherited `constructor` of any value is), and   *)
(* an object, which owns each key of OwnKeys or not.  A path is null, '',  *)
(* a value that is no string, or a string, held as what split('.') makes   *)
(* of it.                                                                  *)
(***************************************************************************)
JNull == [t |-> "null"]

JEmpty == [t |-> "empty"]

JStr == [t |-> "str"]

JZero == [t |-> "zero"]

JFunc == [t |-> "func"]

JAbsent == [t |-> "absent"]

JObj(a, b) == [t |-> "obj", own |-> [a |-> a, b |-> b]]

OwnKeys == {"a", "b"}

\* The property names a path of the model can hold: the keys an object can own
\* and one that every value inherits from its prototype.
PathSegments == OwnKeys \cup {"constructor"}

\* A number that is not 0, a string parseFloat reads as such a number, and a
\* string parseFloat reads as 0.
JNum == [t |-> "num"]

JNumStr == [t |-> "numstr"]

JZeroStr == [t |-> "zerostr"]

JTruthy(v) == v.t \in {"str", "func", "obj", "num", "numstr", "zerostr"}

\* `acc[part]` on a truthy acc: an own property, else one found on the
\* prototype chain, else undefined.
getProperty(acc, part) ==
  IF acc.t = "obj" /\ part \in OwnKeys /\ acc.own[part] # JAbsent THEN acc.own[part]
  ELSE IF part = "constructor" THEN JFunc
  ELSE JNull

\* path.split('.').reduce((acc, part) => acc && acc[part], obj)
RECURSIVE reducePath(_, _, _)
reducePath(acc, parts, i) ==
  IF i > Len(parts) THEN acc
  ELSE reducePath(IF JTruthy(acc) THEN getProperty(acc, parts[i]) ELSE acc, parts, i + 1)

\* APIHandler.getValueByPath
getValueByPath(obj, path) ==
  IF path.k # "str" THEN JEmpty
  ELSE LET found == reducePath(obj, path.parts, 1)
       IN IF JTruthy(found) THEN found ELSE JEmpty

\* Longest path, in segments.
MaxPathLen == 2

JLeaves == {JNull, JEmpty, JStr, JZero}

JFlatObjects == {JObj(a, b) : a, b \in JLeaves \cup {JAbsent}}

JObjects == {JObj(a, b) : a, b \in JLeaves \cup JFlatObjects \cup {JAbsent}}

Paths ==
  {[k |-> kind, parts |-> <<>>] : kind \in {"null", "empty", "nonstring"}}
  \cup {[k |-> "str", parts |-> parts] :
          parts \in UNION {[1..m -> PathSegments] : m \in 1..MaxPathLen}}

\* ------------------------------- APIHandler.mapItemWithDynamicPattern

CoordinateKeys == {"latitude", "longitude"}

\* What a mapping holds for a key it does not have.
NoKey == [k |-> "nokey", parts |-> <<>>]

\* `parseFloat(v) || null`: NaN and 0 give null.
parseFloatOrNull(v) == IF v.t \in {"num", "numstr"} THEN JNum ELSE JNull

\* `if (store.latitude) store.latitude = parseFloat(store.latitude) || null`
cleanCoordinate(v) == IF JTruthy(v) THEN parseFloatOrNull(v) ELSE v

\* The latitude and longitude of the store mapItemWithDynamicPattern returns:
\* the loop over Object.entries(mapping) sets the keys the mapping has.
mapItemCoordinates(item, mapping) ==
  [key \in CoordinateKeys |->
     cleanCoordinate(IF mapping[key] = NoKey THEN JAbsent
                     ELSE getValueByPath(item, mapping[key]))]

\* The values a coordinate of an item can be, the items, and the mappings.
CoordinateLeaves == {JNull, JEmpty, JStr, JZero, JNum, JNumStr, JZeroStr}

CoordinateItems ==
  {JObj(a, b) : a \in CoordinateLeaves \cup {JAbsent}
                      \cup {JObj(l, JAbsent) : l \in CoordinateLeaves},
                b \in CoordinateLeaves}

CoordinateMappings == [CoordinateKeys -> Paths \cup {NoKey}]

\* -------------------------------------------- ScriptDataExtractor.extract

(***************************************************************************)
(* The text of a script element is a sequence of characters.  The key      *)
(* "stores" is written "s" and the key "name" is written "n", so the text  *)
(* searched for, {"stores": , is the five characters of Opener.            *)
(***************************************************************************)
Quote == "\""

Backslash == "\\"

Opener == <<"{", Quote, "s", Quote, ":">>

\* raw.replace(/\\"/g, '"'): every backslash followed by a quote becomes a quote.
RECURSIVE replaceEscapedQuotes(_, _)
replaceEscapedQuotes(raw, i) ==
  IF i > Len(raw) THEN <<>>
  ELSE IF raw[i] = Backslash /\ i < Len(raw) /\ raw[i + 1] = Quote
  THEN <<Quote>> \o replaceEscapedQuotes(raw, i + 2)
  ELSE <<raw[i]>> \o replaceEscapedQuotes(raw, i + 1)

\* lit occurs in txt at position i.
StartsWith(txt, i, lit) ==
  i + Len(lit) - 1 <= Len(txt) /\ SubSeq(txt, i, i + Len(lit) - 1) = lit

\* txt.indexOf('{"stores":'), as a position from 1; 0 for -1.
indexOf(txt, lit) ==
  IF \E i \in 1..Len(txt) : StartsWith(txt, i, lit)
  THEN CHOOSE i \in 1..Len(txt) :
         StartsWith(txt, i, lit) /\ \A k \in 1..(i - 1) : ~StartsWith(txt, k, lit)
  ELSE 0

\* The for loop that balances braces from j on: the position of the brace that
\* brings depth back to 0, or 0 when the text ends first (end stays -1).
RECURSIVE balanceBraces(_, _, _, _, _)
balanceBraces(txt, j, depth, inString, escape) ==
  IF j > Len(txt) THEN 0
  ELSE LET ch == txt[j] IN
       IF inString
       THEN IF escape THEN balanceBraces(txt, j + 1, depth, TRUE, FALSE)
            ELSE IF ch = Backslash THEN balanceBraces(txt, j + 1, depth, TRUE, TRUE)
            ELSE IF ch = Quote THEN balanceBraces(txt, j + 1, depth, FALSE, FALSE)
            ELSE balanceBraces(txt, j + 1, depth, TRUE, FALSE)
       ELSE IF ch = Quote THEN balanceBraces(txt, j + 1, depth, TRUE, escape)
            ELSE IF ch = "{" THEN balanceBraces(txt, j + 1, depth + 1, FALSE, escape)
            ELSE IF ch = "}"
            THEN IF depth - 1 = 0 THEN j
                 ELSE balanceBraces(txt, j + 1, depth - 1, FALSE, escape)
            ELSE balanceBraces(txt, j + 1, depth, FALSE, escape)

ParseError == [ok |-> FALSE, val |-> <<>>, next |-> 0]

Parsed(val, next) == [ok |-> TRUE, val |-> val, next |-> next]

\* JSON.parse inside a string literal, after its opening quote: a backslash
\* escapes a quote or a backslash and is a SyntaxError before the other
\* characters of the model; the literal ends at the first unescaped quote.
RECURSIVE parseStringBody(_, _, _)
parseStringBody(t, j, acc) ==
  IF j > Len(t) THEN ParseError
  ELSE IF t[j] = Quote THEN Parsed(acc, j + 1)
  ELSE IF t[j] = Backslash
  THEN IF j < Len(t) /\ t[j + 1] \in {Quote, Backslash}
       THEN parseStringBody(t, j + 2, Append(acc, t[j + 1]))
       ELSE ParseError
  ELSE parseStringBody(t, j + 1, Append(acc, t[j]))

RecordOpener == <<"{", Quote, "n", Quote, ":", Quote>>

\* JSON.parse of one object {"name": string}.
parseRecord(t, i) ==
  IF ~StartsWith(t, i, RecordOpener) THEN ParseError
  ELSE LET str == parseStringBody(t, i + Len(RecordOpener), <<>>)
       IN IF str.ok /\ StartsWith(t, str.next, <<"}">>)
          THEN Parsed(str.val, str.next + 1)
          ELSE ParseError

\* JSON.parse of the elements of the array and of the end of the text.
RECURSIVE parseRecords(_, _, _)
parseRecords(t, i, acc) ==
  LET rec == parseRecord(t, i)
  IN IF ~rec.ok THEN ParseError
     ELSE IF StartsWith(t, rec.next, <<",">>)
     THEN parseRecords(t, rec.next + 1, Append(acc, rec.val))
     ELSE IF StartsWith(t, rec.next, <<"]", "}">>) /\ Len(t) = rec.next + 1
     THEN Parsed(Append(acc, rec.val), Len(t) + 1)
     ELSE ParseError

\* JSON.parse on the texts of the model: it returns the names of the records of
\* {"stores": [{"name": ...}, ...]} and throws a SyntaxError on any other text.
JSONparse(t) ==
  LET head == Opener \o <<"[">>
  IN IF ~StartsWith(t, 1, head) THEN ParseError
     ELSE IF StartsWith(t, Len(head) + 1, <<"]", "}">>) /\ Len(t) = Len(head) + 2
     THEN Parsed(<<>>, Len(t) + 1)
     ELSE parseRecords(t, Len(head) + 1, <<>>)

\* The object pushed by arr.forEach for a record that has a name only.
scriptStore(name) == Store(Str(name), Str(<<>>), Str(<<>>), "null", "null", "inline-script")

\* The callback of $('script').each on a script element with the text raw:
\* the stores it pushes.
extractScript(raw) ==
  IF raw = <<>> THEN <<>>
  ELSE LET txt == replaceEscapedQuotes(raw, 1)
           start == indexOf(txt, Opener)
       IN IF start = 0 THEN <<>>
          ELSE LET last == balanceBraces(txt, start, 0, FALSE, FALSE)
               IN IF last = 0 THEN <<>>
                  ELSE LET obj == JSONparse(SubSeq(txt, start, last))
                       IN IF ~obj.ok THEN <<>>
                          ELSE [k \in 1..Len(obj.val) |-> scriptStore(obj.val[k])]

\* Most units (a character or an escape sequence) of a string value.
MaxNameUnits == 2

\* What a string value of the payload is written with: a letter, the braces,
\* an escaped quote and an escaped backslash.
NameUnits == {<<"A">>, <<"{">>, <<"}">>, <<Backslash, Quote>>, <<Backslash, Backslash>>}

RECURSIVE Flatten(_)
Flatten(seqs) == IF seqs = <<>> THEN <<>> ELSE Head(seqs) \o Flatten(Tail(seqs))

\* The string values, as written between their quotes.
NameTexts == {Flatten(units) : units \in SeqOfLen(NameUnits, MaxNameUnits)}

\* The payloads: one record, or one followed by a record named A.
Payloads == {<<n>> : n \in NameTexts} \cup {<<n, <<"A">>>> : n \in NameTexts}

RECURSIVE recordTexts(_, _)
recordTexts(names, i) ==
  IF i > Len(names) THEN <<>>
  ELSE (IF i > 1 THEN <<",">> ELSE <<>>)
       \o RecordOpener \o names[i] \o <<Quote, "}">> \o recordTexts(names, i + 1)

\* The text of the object {"stores": [...]} with the given names.
Blob(names) == Opener \o <<"[">> \o recordTexts(names, 1) \o <<"]", "}">>

\* Script text around the object.
Junk == {<<>>, <<"x">>, <<"x", "{">>, <<"}", "x">>, <<Quote>>}

ScriptText(payload, prefix, suffix, keep) ==
  prefix \o SubSeq(Blob(payload), 1, keep) \o suffix

ScriptIdle ==
  /\ sdPayload = <<>> /\ sdPrefix = <<>> /\ sdSuffix = <<>> /\ sdKeep = 0
  /\ sdOut = Returned(<<>>) /\ sdPc = "idle"

\* --------------------------------------- APIHandler.generateCoordinateGrid

\* CONFIG.GRID_LAT_STEP and CONFIG.GRID_LNG_STEP when the environment sets none.
GRID_LAT_STEP == 30

GRID_LNG_STEP == 30

\* The step sizes of the model: the configured one, some that divide the
\* ranges and some that do not.
GridSteps == {30, 45, 60, 90, 100, 200}

Min(a, b) == IF a < b THEN a ELSE b

\* Mutant: the north-east corner without Math.min.
neCornerUnclamped(sw, step, limit) == sw + step

\* Math.min(lat + CONFIG.GRID_LAT_STEP, 90) and its like for lng.
neCorner(sw, step, limit) == Min(sw + step, limit)

\* The box of one iteration.  The centre, (sw + ne) / 2, is held as twice its
\* value, in half degrees.
\* Mutant: the box is put at the front of the list.
unshift(list, box) == <<box>> \o list

\* boxes.push(box)
push(list, box) == Append(list, box)

Box(swLat, swLng, stepLat, stepLng) ==
  LET neLat == neCorner(swLat, stepLat, 90)
      neLng == neCorner(swLng, stepLng, 180)
  IN [sw_lat |-> swLat, sw_lng |-> swLng, ne_lat |-> neLat, ne_lng |-> neLng,
      center_lat |-> swLat + neLat, center_lng |-> swLng + neLng]

\* APIHandler.isOcean on the centre of a box, for the three geocoders of the
\* model: all land, all ocean, and ocean south of the equator.
isOcean(geocoder, box) ==
  IF geocoder = "land" THEN FALSE
  ELSE IF geocoder = "ocean" THEN TRUE
  ELSE box.center_lat < 0

GridIdle ==
  /\ latStep = GRID_LAT_STEP /\ lngStep = GRID_LNG_STEP /\ ocean = "land"
  /\ gridLat = -90 /\ gridLng = -180 /\ cells = <<>> /\ boxes = <<>> /\ gridPc = "idle"

NoReply == [kind |-> "none"]

OracleIdle ==
  /\ orDetector = "html" /\ orEmpty = FALSE /\ orAttempt = 0 /\ orReply = NoReply
  /\ orOut = NullPattern /\ orPc = "idle"

PathIdle == gvObj = JNull /\ gvPath = [k |-> "null", parts |-> <<>>] /\ gvOut = JEmpty /\ gvPc = "idle"

MapIdle ==
  /\ mpItem = JNull /\ mpMapping = [key \in CoordinateKeys |-> NoKey]
  /\ mpStore = [key \in CoordinateKeys |-> JAbsent] /\ mpPc = "idle"

RetryIdle ==
  /\ rtRetries = RETRY_COUNT /\ rtPlan = <<>> /\ rtI = 0 /\ rtCalls = 0
  /\ rtSleeps = <<>> /\ rtOut = [kind |-> "pending"] /\ rtPc = "idle"

ClickIdle ==
  /\ smContexts = 0 /\ smCtx = 0 /\ smClicks = 0 /\ smHasSelector = FALSE
  /\ smStop = "none" /\ smLog = <<>> /\ smPc = "idle"

BlockIdle == sbBlocks = <<>> /\ sbI = 0 /\ sbStores = <<>> /\ sbPc = "idle"

ParsedIdle == ffObj = [t |-> "null"] /\ ffOut = Returned(<<>>) /\ ffPc = "idle"

NoStats == [total |-> 0, by_source |-> <<>>, with_coordinates |-> 0]

StatsIdle == csStores = <<>> /\ csI = 0 /\ stats = NoStats /\ csPc = "idle"

ResponseIdle ==
  rsSeen = <<>> /\ rsPc = <<>> /\ rsEnd = <<>> /\ apiResponses = <<>> /\ rsPhase = 0

LoopIdle ==
  /\ envLatStep = [k |-> "unset", n |-> 0] /\ envLngStep = [k |-> "unset", n |-> 0]
  /\ loopLat = -90 /\ loopLng = -180 /\ loopPc = "idle"

\* A merged text: the document its main part was taken from, and the document
\* whose iframes its other parts were taken from, with their number.
Merged(main, framesOf, frames) == [main |-> main, framesOf |-> framesOf, frames |-> frames]

\* The frames of this._iframeContexts: the document they belong to, and
\* their number.
Frames(of, n) == [of |-> of, n |-> n]

NothingRead ==
  [cheerio |-> 0, live |-> 0, frames |-> Frames(0, 0), jsonLd |-> 0,
   scripts |-> Merged(0, 0, 0)]

GateIdle ==
  /\ livePage = 0 /\ mainSnapshot = 0 /\ postClickHtml = 0
  /\ htmlToAnalyze = Merged(0, 0, 0) /\ liveFrames = 0 /\ frameContexts = Frames(0, 0)
  /\ detectedOn = <<>> /\ phase3Read = NothingRead /\ snapPc = "idle"

LateIdle == BlockIdle /\ ParsedIdle /\ StatsIdle /\ ResponseIdle /\ LoopIdle /\ GateIdle

MoreIdle == MapIdle /\ RetryIdle /\ ClickIdle /\ LateIdle

HelperIdle == PathIdle /\ ScriptIdle /\ GridIdle /\ OracleIdle /\ MoreIdle

DataIdle ==
  /\ dpIn = <<>> /\ dpOut = Returned(<<>>) /\ dpOut2 = Returned(<<>>) /\ dpPc = "idle"

ExtractIdle ==
  /\ exPattern = NullPattern /\ exDoc = EmptyHtml /\ exCtx = "page"
  /\ exCheerio = Returned(<<>>) /\ exPuppeteer = Returned(<<>>) /\ exPc = "idle"

ScrapeIdle ==
  /\ pc = "idle" /\ url = "other" /\ optsBound = FALSE /\ browser = "none" /\ acquired = FALSE
  /\ caught = FALSE /\ result = "pending" /\ htmlPattern = NullPattern
  /\ mainPageHtml = EmptyHtml /\ iframeContexts = 0 /\ ctxIndex = 0
  /\ allStores = <<>> /\ processed = <<>>
  /\ foundHtml = 0 /\ effects = {} /\ apiInfo = [null |-> TRUE]

\* ------------------------------------------------------------- APIHandler

(***************************************************************************)
(* A response is observed through findFirstArrayOfObjects: the number of   *)
(* items of its first array of objects.  The field mapping the oracle      *)
(* returns is observed through the records it maps an item to: "null" (the *)
(* oracle failed), "text" (name and address paths lead to strings) or "id" *)
(* (the name path leads to a number).                                      *)
(***************************************************************************)
Mappings == {"text", "id"}

\* APIHandler.mapItemWithDynamicPattern on the item of a response.
mapItemWithDynamicPattern(mapping) ==
  Store(IF mapping = "id" THEN NonStr ELSE Str(<<"a">>), Str(<<"b">>), Str(<<"c">>),
        "num", "num", "api-dynamic")

\* processResponse once a mapping is held: items.map(...).
mapItems(n, mapping) == [i \in 1..n |-> mapItemWithDynamicPattern(mapping)]

\* Mutant: `>` where the loop tests `>=`.
sweepStopsLate(empty) == empty > MAX_EMPTY_BOXES

\* `if (consecutiveEmpty >= CONFIG.MAX_EMPTY_BOXES) break`
sweepStops(empty) == empty >= MAX_EMPTY_BOXES

SweepIdle ==
  /\ apiPc = "idle" /\ apiTemplate = "url" /\ landCells = 0 /\ dynamicMapping = "null"
  /\ landBoxes = 0 /\ boxIndex = 0 /\ consecutiveEmpty = 0 /\ apiStores = <<>>
  /\ requests = 0 /\ mappingCalls = 0 /\ rateSlept = FALSE /\ newStoresLen = 0 /\ apiResult = Returned(<<>>)

\* The entry of fetchWithCoordinateAPI: `apiInfo.apiTemplate.split('?')` throws
\* a TypeError on a template that is undefined or no string.
ApiStart ==
  /\ apiPc = "called"
  /\ IF apiTemplate \in {"absent", "nonstring"}
     THEN apiPc' = "done" /\ apiResult' = Thrown
     ELSE apiPc' = "direct" /\ UNCHANGED apiResult
  /\ UNCHANGED <<apiTemplate, landCells, dynamicMapping, landBoxes, boxIndex,
                 consecutiveEmpty, apiStores, requests, mappingCalls, rateSlept, newStoresLen>>
  /\ UNCHANGED <<dataVars, extractVars, scrapeVars, helperVars>>

\* Mutant: `>=` where the direct call tests `>`.
directCallSufficesAtThreshold(stores) == Len(stores) >= DIRECT_CALL_MIN

\* `if (stores.length > 50)`
directCallSuffices(stores) == Len(stores) > DIRECT_CALL_MIN

\* The direct call: the request fails after its retries, or answers with n
\* items; without a mapping the oracle is asked, and may fail.
ApiDirectCall ==
  /\ apiPc = "direct"
  /\ \E n \in {0, 1, DIRECT_CALL_MIN, DIRECT_CALL_MIN + 1}, failed \in BOOLEAN,
        oracle \in Mappings \cup {"null"} :
       LET mapping == IF failed \/ n = 0 THEN "null" ELSE oracle
           stores == IF mapping = "null" THEN <<>> ELSE mapItems(n, mapping)
       IN /\ dynamicMapping' = mapping
          /\ mappingCalls' = mappingCalls + (IF failed \/ n = 0 THEN 0 ELSE 1)
          /\ IF directCallSuffices(stores)
             THEN apiPc' = "done" /\ apiResult' = Returned(stores)
             ELSE apiPc' = "grid" /\ UNCHANGED apiResult
  /\ UNCHANGED <<apiTemplate, landCells, landBoxes, boxIndex, consecutiveEmpty,
                 apiStores, requests, rateSlept, newStoresLen>>
  /\ UNCHANGED <<dataVars, extractVars, scrapeVars, helperVars>>

\* const stores = []; landBoxes = generateCoordinateGrid(); consecutiveEmpty = 0
ApiGenerateGrid ==
  /\ apiPc = "grid"
  /\ landBoxes' = landCells
  /\ boxIndex' = 0 /\ consecutiveEmpty' = 0 /\ apiStores' = <<>>
  /\ apiPc' = "sweep"
  /\ UNCHANGED <<apiTemplate, landCells, dynamicMapping, requests, mappingCalls, rateSlept, newStoresLen, apiResult>>
  /\ UNCHANGED <<dataVars, extractVars, scrapeVars, helperVars>>

\* One iteration of the sweep loop that passes the test at its top.  new
\* URL(url, baseUrl) throws on a template that is no URL, outside the try; the
\* request fails after its retries, or answers with n items.
SweepCell ==
  /\ apiPc = "sweep" /\ boxIndex < landBoxes
  /\ ~sweepStops(consecutiveEmpty)
  /\ IF apiTemplate = "invalid"
     THEN /\ apiPc' = "done" /\ apiResult' = Thrown
          /\ UNCHANGED <<dynamicMapping, boxIndex, consecutiveEmpty, apiStores,
                         requests, mappingCalls, rateSlept, newStoresLen>>
     ELSE \E n \in {0, 1}, failed \in BOOLEAN, oracle \in Mappings \cup {"null"} :
            LET mapping == IF failed \/ n = 0 \/ dynamicMapping # "null"
                           THEN dynamicMapping ELSE oracle
                newStores == IF failed \/ mapping = "null" THEN <<>> ELSE mapItems(n, mapping)
            IN /\ requests' = requests + 1
               /\ dynamicMapping' = mapping
               /\ mappingCalls' = mappingCalls
                    + (IF failed \/ n = 0 \/ dynamicMapping # "null" THEN 0 ELSE 1)
               /\ rateSlept' = ~failed
               /\ newStoresLen' = Len(newStores)
               /\ IF Len(newStores) > 0
                  THEN consecutiveEmpty' = 0 /\ apiStores' = apiStores \o newStores
                  ELSE consecutiveEmpty' = consecutiveEmpty + 1 /\ UNCHANGED apiStores
               /\ boxIndex' = boxIndex + 1
               /\ UNCHANGED <<apiPc, apiResult>>
  /\ UNCHANGED <<apiTemplate, landCells, landBoxes>>
  /\ UNCHANGED <<dataVars, extractVars, scrapeVars, helperVars>>

\* The loop ends: by the break at its top, or with the last box.
SweepEnd ==
  /\ apiPc = "sweep"
  /\ boxIndex = landBoxes \/ sweepStops(consecutiveEmpty)
  /\ apiPc' = "done" /\ apiResult' = Returned(apiStores)
  /\ UNCHANGED <<apiTemplate, landCells, dynamicMapping, landBoxes, boxIndex,
                 consecutiveEmpty, apiStores, requests, mappingCalls, rateSlept, newStoresLen>>
  /\ UNCHANGED <<dataVars, extractVars, scrapeVars, helperVars>>

InitSweep ==
  /\ apiPc = "called"
  /\ apiTemplate \in {"url", "invalid", "nonstring"}
  /\ landCells \in {0, 1, MaxBoxes}
  /\ dynamicMapping = "null" /\ landBoxes = 0 /\ boxIndex = 0 /\ consecutiveEmpty = 0
  /\ apiStores = <<>> /\ requests = 0 /\ mappingCalls = 0 /\ rateSlept = FALSE /\ newStoresLen = 0 /\ apiResult = Returned(<<>>)
  /\ DataIdle /\ ExtractIdle /\ ScrapeIdle /\ HelperIdle

NextSweep == ApiStart \/ ApiDirectCall \/ ApiGenerateGrid \/ SweepCell \/ SweepEnd

SpecSweep == InitSweep /\ [][NextSweep]_vars

\* -------------------------------------------------------- PatternDetector

\* A descriptor of the oracle with the selectors the orchestrator reads, each
\* observed as present (truthy) or not.
RunPattern(item, hasFields, gate, more, search) ==
  [null |-> FALSE, itemSelector |-> item, hasFields |-> hasFields,
   fields |-> [name |-> "text", address |-> "text"],
   initialButtonSelector |-> gate, showMoreSelector |-> more, searchSelectors |-> search]

\* PatternDetector.getFallbackPattern.
getFallbackPattern == RunPattern("text", TRUE, FALSE, FALSE, FALSE)

\* What PatternDetector.detectHTMLPattern can return: JSON.parse of the oracle's
\* reply, whatever JSON value that is, or the fallback pattern.
OracleReplies ==
  {NullPattern, getFallbackPattern,
   RunPattern("text", FALSE, FALSE, FALSE, FALSE),
   RunPattern("invalid", TRUE, FALSE, FALSE, FALSE),
   RunPattern("text", TRUE, TRUE, FALSE, FALSE),
   RunPattern("text", TRUE, FALSE, TRUE, FALSE),
   RunPattern("text", TRUE, FALSE, FALSE, TRUE)}

(***************************************************************************)
(* What a detector gets from `await withRetry(() => axios.post(...))` and  *)
(* the lines that read the reply:                                          *)
(*   [kind |-> "error"]       the last attempt of withRetry threw          *)
(*   [kind |-> "nobody"]      a response without content: content.match    *)
(*                            throws a TypeError                           *)
(*   [kind |-> "unparsable"]  content on which JSON.parse throws           *)
(*   [kind |-> "json", value] content that JSON.parse turns into value     *)
(***************************************************************************)
OracleError == [kind |-> "error"]

JsonReply(value) == [kind |-> "json", value |-> value]

\* The API descriptors of a reply: the JSON value null, or an object with
\* hasCoordinateAPI and an apiTemplate that is absent, '', a URL template, a
\* string that is no URL, or a truthy value that is no string.
NullInfo == [null |-> TRUE]

ApiInfo(has, template) == [null |-> FALSE, hasCoordinateAPI |-> has, apiTemplate |-> template]

ApiTemplates == {"absent", "empty", "url", "invalid", "nonstring"}

ApiReplies == {NullInfo} \cup {ApiInfo(has, t) : has \in BOOLEAN, t \in ApiTemplates}

\* The field mappings of a reply: the JSON value null, or a mapping.
MappingReplies == Mappings \cup {"null"}

\* Mutant: detectHTMLPattern whose catch returns null.
detectHTMLPatternNoFallback(htmlEmpty, reply) ==
  IF htmlEmpty THEN getFallbackPattern
  ELSE IF reply.kind = "json" THEN reply.value
  ELSE NullPattern

\* PatternDetector.detectHTMLPattern: the fallback for an empty html and from
\* the catch; otherwise whatever JSON.parse returned.
detectHTMLPattern(htmlEmpty, reply) ==
  IF htmlEmpty THEN getFallbackPattern
  ELSE IF reply.kind = "json" THEN reply.value
  ELSE getFallbackPattern

\* Mutant: detectCoordinateAPI without the test of hasCoordinateAPI.
detectCoordinateAPIAnyTemplate(responsesEmpty, reply) ==
  IF responsesEmpty THEN NullInfo
  ELSE IF reply.kind # "json" THEN NullInfo
  ELSE IF reply.value.null THEN NullInfo
  ELSE reply.value

\* PatternDetector.detectCoordinateAPI: null without responses and from the
\* catch, which also takes the TypeError of `result.hasCoordinateAPI` on null.
detectCoordinateAPI(responsesEmpty, reply) ==
  IF responsesEmpty THEN NullInfo
  ELSE IF reply.kind # "json" THEN NullInfo
  ELSE IF reply.value.null THEN NullInfo
  ELSE IF reply.value.hasCoordinateAPI /\ reply.value.apiTemplate \notin {"absent", "empty"}
  THEN reply.value
  ELSE NullInfo

\* PatternDetector.detectApiDataMapping: null from the catch.
detectApiDataMapping(reply) ==
  IF reply.kind = "json" THEN reply.value ELSE "null"

\* ------------------------------------------------------------- ScraperCLI

\* The documents of a run: no element, or one with a name and an address.
RunDocuments == {Html(<<>>), Html(<<[name |-> <<"a">>, address |-> <<"a">>]>>)}

\* The sites a url can name.  "acme": the main document holds one JSON-LD
\* block with one LocalBusiness, and nothing else yields a record, in its
\* static text, its live DOM, its frames or its network traffic.  "mall": the
\* static text of the main document holds one element short of
\* SUFFICIENT_STORES, and may hold the JSON-LD block as well.  "other": a site
\* with at most one element per document, any inline script, and JSON-LD that
\* is absent, broken or of a type the extractor skips.
Sites == {"acme", "mall", "other"}

\* A document with n elements that each have a name and an address.
Listing(n) == Html([i \in 1..n |-> [name |-> <<"a">>, address |-> <<"a">>]])

\* What page.content() can return for a site.
MainDocuments(site) ==
  IF site = "acme" THEN {Html(<<>>)}
  ELSE IF site = "mall" THEN {Listing(SUFFICIENT_STORES - 1)}
  ELSE RunDocuments

\* What the live DOM and the frames of a site can hold.
LiveDocuments(site) == IF site = "other" THEN RunDocuments ELSE {Html(<<>>)}

\* What the JSON-LD and the inline scripts of a site can be.
SiteJsonLd(site) ==
  IF site = "acme" THEN {"business"}
  ELSE IF site = "mall" THEN {"none", "business"}
  ELSE {"none", "place", "broken"}

SiteScripts(site) == IF site = "other" THEN {"none", "city", "object", "null"} ELSE {"none"}

\* Whether the response listener of a site can end with no response captured.
SiteResponsesEmpty(site) == IF site = "acme" THEN {TRUE} ELSE BOOLEAN

\* The JSON-LD record of the site "acme".
AcmeStore == Store(Str(<<"A">>), Str(<<"a">>), Str(<<"c">>), "null", "null", "json-ld")

\* `if (store.name || (store.address && store.city))` of JSONLDExtractor.extract.
jsonLdKeeps(store) == Truthy(store.name) \/ (Truthy(store.address) /\ Truthy(store.city))

\* JSONLDExtractor.extract on a document whose JSON-LD is: "none"; "business", a
\* LocalBusiness with name, streetAddress and addressLocality; "place", a
\* LocalBusiness with an addressLocality only; "broken", text that does not parse.
JSONLDExtract(ld) ==
  LET items == IF ld = "business"
               THEN <<AcmeStore>>
               ELSE IF ld = "place"
               THEN <<Store(Str(<<>>), Str(<<>>), Str(<<"c">>), "null", "null", "json-ld")>>
               ELSE <<>>
  IN SelectSeq(items, jsonLdKeeps)

JsonLdBlocks == {"none", "business", "place", "broken"}

\* ScriptDataExtractor.extract on a document whose inline script is: "none";
\* "city", {"stores":[{"city":"c"}]}; "object", {"stores":[{"name":"a",
\* "address":{"city":"c"}}]}, whose address has no street1 and stays an object;
\* "null", {"stores":[null]}, where `s.name` throws a TypeError in forEach.
ScriptDataExtract(script) ==
  IF script = "null" THEN Thrown
  ELSE IF script = "city"
  THEN Returned(<<Store(Str(<<>>), Str(<<>>), Str(<<"c">>), "null", "null", "inline-script")>>)
  ELSE IF script = "object"
  THEN Returned(<<Store(Str(<<"a">>), NonStr, Str(<<"c">>), "null", "null", "inline-script")>>)
  ELSE Returned(<<>>)

ScriptBlocks == {"none", "city", "object", "null"}

\* The loop over this._iframeContexts of Phase 3, on n frames of one content.
RECURSIVE frameStores(_, _, _)
frameStores(n, doc, pattern) ==
  IF n = 0 THEN Returned(<<>>)
  ELSE LET c == extractWithCheerio(doc, pattern)
           rest == frameStores(n - 1, doc, pattern)
       IN IF c.thrown \/ rest.thrown THEN Thrown
          ELSE Returned(c.value \o extractWithPuppeteer("frame", doc, pattern).value
                        \o rest.value)

InitScrape ==
  /\ pc = "called" /\ url \in Sites /\ optsBound \in BOOLEAN
  /\ browser = "none" /\ acquired = FALSE /\ caught = FALSE /\ result = "pending"
  /\ htmlPattern = NullPattern /\ mainPageHtml = EmptyHtml /\ iframeContexts = 0
  /\ ctxIndex = 0 /\ allStores = <<>> /\ processed = <<>>
  /\ foundHtml = 0 /\ effects = {} /\ apiInfo = NullInfo
  /\ DataIdle /\ ExtractIdle /\ SweepIdle /\ HelperIdle

\* Lines 904-905 read `opts`, which is no parameter, local or module variable
\* of universal.js: the read throws a ReferenceError, outside the try, unless
\* the embedding program defines a global of that name.
ScrapeEntry ==
  /\ pc = "called"
  /\ IF optsBound THEN pc' = "initialize" /\ UNCHANGED result
     ELSE pc' = "returned" /\ result' = "rejected"
  /\ UNCHANGED <<url, optsBound, foundHtml, effects, apiInfo, browser, acquired,
                 caught, htmlPattern, mainPageHtml, iframeContexts, ctxIndex,
                 allStores, processed>>
  /\ UNCHANGED <<dataVars, extractVars, sweepVars, helperVars>>

\* await this.initialize(proxyLocation): puppeteer.launch rejects, or a later
\* call of initialize rejects with the browser launched, or all succeed.
Initialize ==
  /\ pc = "initialize"
  /\ \E outcome \in {"launch fails", "page fails", "ok"} :
       /\ browser' = IF outcome = "launch fails" THEN "none" ELSE "open"
       /\ IF outcome = "ok" THEN pc' = "goto" /\ UNCHANGED caught
          ELSE pc' = "cleanup" /\ caught' = TRUE
  /\ UNCHANGED <<url, optsBound, foundHtml, effects, apiInfo, acquired, result,
                 htmlPattern, mainPageHtml, iframeContexts, ctxIndex, allStores,
                 processed>>
  /\ UNCHANGED <<dataVars, extractVars, sweepVars, helperVars>>

\* Document Acquisition: page.goto (a failed retry after a redirect is
\* swallowed) and page.content().
LoadPage ==
  /\ pc = "goto"
  /\ \/ /\ pc' = "cleanup" /\ caught' = TRUE
        /\ UNCHANGED <<acquired, mainPageHtml>>
     \/ \E doc \in MainDocuments(url) :
          /\ acquired' = TRUE /\ mainPageHtml' = doc
          /\ pc' = "assemble" /\ UNCHANGED caught
  /\ UNCHANGED <<url, optsBound, foundHtml, effects, apiInfo, browser, result,
                 htmlPattern, iframeContexts, ctxIndex, allStores, processed>>
  /\ UNCHANGED <<dataVars, extractVars, sweepVars, helperVars>>

\* Phase 1: the iframes whose content loads become this._iframeContexts.
AssembleContext ==
  /\ pc = "assemble"
  /\ \E n \in 0..MaxFrames : iframeContexts' = n
  /\ pc' = "detect"
  /\ UNCHANGED <<url, optsBound, foundHtml, effects, apiInfo, browser, acquired,
                 caught, result, htmlPattern, mainPageHtml, ctxIndex, allStores,
                 processed>>
  /\ UNCHANGED <<dataVars, extractVars, sweepVars, helperVars>>

\* Phase 2: htmlPattern = await PatternDetector.detectHTMLPattern(htmlToAnalyze)
DetectPattern ==
  /\ pc = "detect"
  /\ \E p \in OracleReplies : htmlPattern' = p
  /\ pc' = "gate"
  /\ UNCHANGED <<url, optsBound, foundHtml, effects, apiInfo, browser, acquired,
                 caught, result, mainPageHtml, iframeContexts, ctxIndex, allStores,
                 processed>>
  /\ UNCHANGED <<dataVars, extractVars, sweepVars, helperVars>>

\* `if (htmlPattern.initialButtonSelector)`: a TypeError on a null pattern,
\* which the catch of scrape takes.
InitialGate ==
  /\ pc = "gate"
  /\ IF htmlPattern.null
     THEN pc' = "cleanup" /\ caught' = TRUE
     ELSE /\ UNCHANGED caught
          /\ pc' = IF htmlPattern.initialButtonSelector THEN "bypass" ELSE "extract"
  /\ UNCHANGED <<url, optsBound, foundHtml, effects, apiInfo, browser, acquired,
                 result, htmlPattern, mainPageHtml, iframeContexts, ctxIndex,
                 allStores, processed>>
  /\ UNCHANGED <<dataVars, extractVars, sweepVars, helperVars>>

\* The try of the gate up to its detection: the click, the reload, the content
\* of the page and the second assembly of this._iframeContexts.  A failure of
\* any of them is caught at line 1100 and leaves everything as it was.
GateBypass ==
  /\ pc = "bypass"
  /\ \/ pc' = "extract" /\ UNCHANGED iframeContexts
     \/ \E n \in 0..MaxFrames : iframeContexts' = n /\ pc' = "redetect"
  /\ UNCHANGED <<url, optsBound, foundHtml, effects, apiInfo, browser, acquired,
                 caught, result, htmlPattern, mainPageHtml, ctxIndex, allStores,
                 processed>>
  /\ UNCHANGED <<dataVars, extractVars, sweepVars, helperVars>>

\* Mutant: the gate is tested again on the pattern of the second detection.
GateRedetectAgain ==
  /\ pc = "redetect"
  /\ \E p \in OracleReplies : htmlPattern' = p
  /\ pc' = "gate"
  /\ UNCHANGED <<url, optsBound, foundHtml, effects, apiInfo, browser, acquired,
                 caught, result, mainPageHtml, iframeContexts, ctxIndex, allStores,
                 processed>>
  /\ UNCHANGED <<dataVars, extractVars, sweepVars, helperVars>>

\* htmlPattern = await PatternDetector.detectHTMLPattern(htmlToAnalyze) at
\* line 1086, after which the try ends and Phase 3 begins.
GateRedetect ==
  /\ pc = "redetect"
  /\ \E p \in OracleReplies : htmlPattern' = p
  /\ pc' = "extract"
  /\ UNCHANGED <<url, optsBound, foundHtml, effects, apiInfo, browser, acquired,
                 caught, result, mainPageHtml, iframeContexts, ctxIndex, allStores,
                 processed>>
  /\ UNCHANGED <<dataVars, extractVars, sweepVars, helperVars>>

\* Phase 3: Cheerio and Puppeteer on the main page, on each iframe context
\* (f.content() rejects for a frame that went away), JSON-LD, inline scripts.
\* Nothing here is inside a try but the one around the whole of scrape.
ExtractSources ==
  /\ pc = "extract"
  /\ \E live \in LiveDocuments(url), frameDoc \in LiveDocuments(url), frameGone \in BOOLEAN,
        ld \in SiteJsonLd(url), script \in SiteScripts(url) :
       LET c == extractWithCheerio(mainPageHtml, htmlPattern)
           p == extractWithPuppeteer("page", live, htmlPattern)
           f == IF iframeContexts > 0 /\ frameGone THEN Thrown
                ELSE frameStores(iframeContexts, frameDoc, htmlPattern)
           j == JSONLDExtract(ld)
           x == ScriptDataExtract(script)
           found == c.value \o p.value \o f.value \o j \o x.value
       IN IF c.thrown \/ f.thrown \/ x.thrown
          THEN pc' = "cleanup" /\ caught' = TRUE /\ UNCHANGED <<allStores, foundHtml>>
          ELSE /\ allStores' = found /\ foundHtml' = Len(found)
               /\ pc' = "showMore" /\ UNCHANGED caught
  /\ UNCHANGED <<url, optsBound, effects, apiInfo, browser, acquired, result,
                 htmlPattern, mainPageHtml, iframeContexts, ctxIndex, processed>>
  /\ UNCHANGED <<dataVars, extractVars, sweepVars, helperVars>>

\* `if (htmlPattern.showMoreSelector && allStores.length < 200)`: a TypeError
\* on a null pattern, which the second detection of the gate can have left.
ShowMoreEnter ==
  /\ pc = "showMore"
  /\ IF htmlPattern.null
     THEN pc' = "cleanup" /\ caught' = TRUE /\ UNCHANGED ctxIndex
     ELSE /\ UNCHANGED caught
          /\ IF htmlPattern.showMoreSelector /\ Len(allStores) < SUFFICIENT_STORES
             THEN pc' = "showMoreLoop" /\ ctxIndex' = 0
             ELSE pc' = "search" /\ UNCHANGED ctxIndex
  /\ UNCHANGED <<url, optsBound, foundHtml, effects, apiInfo, browser, acquired,
                 result, htmlPattern, mainPageHtml, iframeContexts, allStores,
                 processed>>
  /\ UNCHANGED <<dataVars, extractVars, sweepVars, helperVars>>

\* One context of the show-more loop: the clicks (the cap of 20 is reached
\* only with a pattern that has the selector), then the content of the context,
\* a new detection after 20 clicks, and the two extractions.  A rejection of
\* content() or a throw of extractWithCheerio ends the loop over the contexts
\* in the catch at line 1185.
ShowMoreContext ==
  /\ pc = "showMoreLoop"
  /\ \E clicked \in BOOLEAN, capped \in BOOLEAN, gone \in BOOLEAN,
        doc \in LiveDocuments(url), reply \in OracleReplies :
       /\ clicked => (~htmlPattern.null /\ htmlPattern.showMoreSelector)
       /\ capped => clicked
       /\ IF gone
          THEN /\ pc' = "search" /\ UNCHANGED <<htmlPattern, allStores, ctxIndex>>
               /\ effects' = effects \cup (IF clicked THEN {"showMoreClick"} ELSE {})
          ELSE LET pattern == IF capped THEN reply ELSE htmlPattern
                   c == extractWithCheerio(doc, pattern)
                   p == extractWithPuppeteer(IF ctxIndex = 0 THEN "page" ELSE "frame",
                                             doc, pattern)
               IN /\ htmlPattern' = pattern
                  /\ effects' = effects \cup (IF clicked THEN {"showMoreClick"} ELSE {})
                                        \cup (IF capped THEN {"redetect"} ELSE {})
                  /\ IF c.thrown
                     THEN pc' = "search" /\ UNCHANGED <<allStores, ctxIndex>>
                     ELSE /\ allStores' = allStores \o c.value \o p.value
                          /\ ctxIndex' = ctxIndex + 1
                          /\ pc' = IF ctxIndex = iframeContexts THEN "search"
                                   ELSE "showMoreLoop"
  /\ UNCHANGED <<url, optsBound, foundHtml, apiInfo, browser, acquired, caught, result,
                 mainPageHtml, iframeContexts, processed>>
  /\ UNCHANGED <<dataVars, extractVars, sweepVars, helperVars>>

\* `if (htmlPattern.searchInputSelector && htmlPattern.searchButtonSelector)`: a
\* TypeError on a null pattern.  For each city the input and the button are
\* looked up in the contexts and, where found, the city is typed and the
\* button clicked, either of which can fail.  Each probe then ends in the
\* catch at line 1284: line 1246 reads updatedMainHtml, a const of the block of
\* the inner loop, outside that block.  So no probe reaches the detection of
\* line 1257, which effects would hold as "searchDetect", or the extractions
\* and the push of lines 1275-1280: htmlPattern and allStores stay as they are.
SearchProbe ==
  /\ pc = "search"
  /\ IF htmlPattern.null
     THEN pc' = "cleanup" /\ caught' = TRUE /\ UNCHANGED effects
     ELSE /\ pc' = "api" /\ UNCHANGED caught
          /\ IF htmlPattern.searchSelectors
             THEN \E done \in {{}, {"searchType"}, {"searchType", "searchClick"}} :
                    effects' = effects \cup done
             ELSE UNCHANGED effects
  /\ UNCHANGED <<url, optsBound, foundHtml, apiInfo, browser, acquired, result,
                 htmlPattern, mainPageHtml, iframeContexts, ctxIndex, allStores, processed>>
  /\ UNCHANGED <<dataVars, extractVars, sweepVars, helperVars>>

\* Phase 4: with fewer than 200 stores, apiInfo = await detectCoordinateAPI(
\* apiResponses, url), which asks the oracle when a response was captured.
ApiPhase ==
  /\ pc = "api"
  /\ IF Len(allStores) < SUFFICIENT_STORES
     THEN \E empty \in SiteResponsesEmpty(url),
             reply \in {OracleError, [kind |-> "unparsable"]}
                       \cup {JsonReply(v) : v \in ApiReplies} :
            /\ apiInfo' = detectCoordinateAPI(empty, reply)
            /\ effects' = effects \cup (IF empty THEN {} ELSE {"apiOracle"})
            /\ pc' = "apiDetected"
     ELSE pc' = "final" /\ UNCHANGED <<apiInfo, effects>>
  /\ UNCHANGED <<url, optsBound, foundHtml, browser, acquired, caught, result, htmlPattern,
                 mainPageHtml, iframeContexts, ctxIndex, allStores, processed>>
  /\ UNCHANGED <<dataVars, extractVars, sweepVars, helperVars>>

\* `if (apiInfo)`: the call of APIHandler.fetchWithCoordinateAPI(apiInfo, url).
ApiFetch ==
  /\ pc = "apiDetected"
  /\ IF apiInfo.null
     THEN pc' = "final" /\ UNCHANGED sweepVars
     ELSE /\ pc' = "fetching"
          /\ apiPc' = "called"
          /\ apiTemplate' = apiInfo.apiTemplate
          /\ landCells' \in {0, MaxRunBoxes}
          /\ UNCHANGED <<dynamicMapping, landBoxes, boxIndex, consecutiveEmpty,
                         apiStores, requests, mappingCalls, rateSlept, newStoresLen, apiResult>>
  /\ UNCHANGED <<url, optsBound, foundHtml, effects, apiInfo, browser, acquired,
                 caught, result, htmlPattern, mainPageHtml, iframeContexts, ctxIndex,
                 allStores, processed>>
  /\ UNCHANGED <<dataVars, extractVars, helperVars>>

\* apiStores = await APIHandler.fetchWithCoordinateAPI(...); allStores.push(...apiStores)
\* The locals of the call are gone with its return.
ApiReturn ==
  /\ pc = "fetching" /\ apiPc = "done"
  /\ IF apiResult.thrown
     THEN pc' = "cleanup" /\ caught' = TRUE /\ UNCHANGED allStores
     ELSE pc' = "final" /\ allStores' = allStores \o apiResult.value /\ UNCHANGED caught
  /\ apiPc' = "idle" /\ apiTemplate' = "url" /\ landCells' = 0 /\ dynamicMapping' = "null"
  /\ landBoxes' = 0 /\ boxIndex' = 0 /\ consecutiveEmpty' = 0 /\ apiStores' = <<>>
  /\ requests' = 0 /\ mappingCalls' = 0 /\ rateSlept' = FALSE /\ newStoresLen' = 0 /\ apiResult' = Returned(<<>>)
  /\ UNCHANGED <<url, optsBound, foundHtml, effects, apiInfo, browser, acquired,
                 result, htmlPattern, mainPageHtml, iframeContexts, ctxIndex,
                 processed>>
  /\ UNCHANGED <<dataVars, extractVars, helperVars>>

\* Mutant: after Phase 5 the run goes back to Phase 4.
FinalizeThenApi ==
  /\ pc = "final"
  /\ LET d == deduplicate(preFilter(allStores))
     IN IF d.thrown
        THEN pc' = "cleanup" /\ caught' = TRUE /\ UNCHANGED processed
        ELSE /\ processed' = d.value
             /\ \/ pc' = "api" /\ UNCHANGED caught
                \/ Len(d.value) > 0 /\ pc' = "cleanup" /\ caught' = TRUE
  /\ UNCHANGED <<url, optsBound, foundHtml, effects, apiInfo, browser, acquired,
                 result, htmlPattern, mainPageHtml, iframeContexts, ctxIndex,
                 allStores>>
  /\ UNCHANGED <<dataVars, extractVars, sweepVars, helperVars>>

\* Phase 5: preFilter, deduplicate, calculateStats, OutputHandler.save, which
\* returns at once for an empty list and otherwise writes files, which can fail.
Finalize ==
  /\ pc = "final"
  /\ LET d == deduplicate(preFilter(allStores))
     IN IF d.thrown
        THEN pc' = "cleanup" /\ caught' = TRUE /\ UNCHANGED processed
        ELSE /\ processed' = d.value
             /\ \/ pc' = "cleanup" /\ UNCHANGED caught
                \/ Len(d.value) > 0 /\ pc' = "cleanup" /\ caught' = TRUE
  /\ UNCHANGED <<url, optsBound, foundHtml, effects, apiInfo, browser, acquired,
                 result, htmlPattern, mainPageHtml, iframeContexts, ctxIndex,
                 allStores>>
  /\ UNCHANGED <<dataVars, extractVars, sweepVars, helperVars>>

\* Mutant: the browser is closed at the end of the try, not in a finally.
CleanupOnSuccessOnly ==
  /\ pc = "cleanup"
  /\ browser' = IF browser = "open" /\ ~caught THEN "closed" ELSE browser
  /\ result' = IF caught THEN "failure" ELSE "success"
  /\ pc' = "returned"
  /\ UNCHANGED <<url, optsBound, foundHtml, effects, apiInfo, acquired, caught,
                 htmlPattern, mainPageHtml, iframeContexts, ctxIndex, allStores,
                 processed>>
  /\ UNCHANGED <<dataVars, extractVars, sweepVars, helperVars>>

\* finally { await this.cleanup() }, then the return of the catch or of the
\* end of scrape; a rejection of browser.close() replaces either.
Cleanup ==
  /\ pc = "cleanup"
  /\ \/ /\ browser' = IF browser = "open" THEN "closed" ELSE browser
        /\ result' = IF caught THEN "failure" ELSE "success"
     \/ /\ browser = "open"
        /\ result' = "rejected" /\ UNCHANGED browser
  /\ pc' = "returned"
  /\ UNCHANGED <<url, optsBound, foundHtml, effects, apiInfo, acquired, caught,
                 htmlPattern, mainPageHtml, iframeContexts, ctxIndex, allStores,
                 processed>>
  /\ UNCHANGED <<dataVars, extractVars, sweepVars, helperVars>>

Next ==
  \/ ScrapeEntry \/ Initialize \/ LoadPage \/ AssembleContext \/ DetectPattern
  \/ InitialGate \/ GateBypass \/ GateRedetect \/ ExtractSources \/ ShowMoreEnter \/ ShowMoreContext \/ SearchProbe
  \/ ApiPhase \/ ApiFetch \/ ApiStart \/ ApiDirectCall \/ ApiGenerateGrid \/ SweepCell \/ SweepEnd
  \/ ApiReturn \/ Finalize \/ Cleanup

Spec == InitScrape /\ [][Next]_vars

\* ------------------------------------------- DataProcessor, called alone

\* The field values deduplicate tells apart: missing, '', equal up to case,
\* containing the separator of the key, and not a string.
DedupNames == {Undef, Str(<<>>), Str(<<"a">>), Str(<<"A">>), Str(<<"a", "_">>), NonStr}

DedupAddresses == {Undef, Str(<<"b">>), Str(<<"_", "b">>)}

DedupCities == {Undef, Str(<<"c">>)}

DedupStores ==
  {Store(n, a, c, "null", "null", "html-cheerio") :
     n \in DedupNames, a \in DedupAddresses, c \in DedupCities}

\* The records preFilter tells apart.
FilterStores ==
  {Store(n, a, c, lat, lng, "api-dynamic") :
     n \in {Undef, Str(<<"a">>)}, a \in {Undef, Str(<<"b">>)}, c \in {Undef, Str(<<"c">>)},
     lat \in {"null", "zero", "num"}, lng \in {"null", "num"}}

InitDedup ==
  /\ dpIn \in SeqOfLen(DedupStores, MaxDedupLen)
  /\ dpOut = Returned(<<>>) /\ dpOut2 = Returned(<<>>) /\ dpPc = "input"
  /\ ExtractIdle /\ SweepIdle /\ ScrapeIdle /\ HelperIdle

InitFilter ==
  /\ dpIn \in SeqOfLen(FilterStores, MaxFilterLen)
  /\ dpOut = Returned(<<>>) /\ dpOut2 = Returned(<<>>) /\ dpPc = "input"
  /\ ExtractIdle /\ SweepIdle /\ ScrapeIdle /\ HelperIdle

\* processed = DataProcessor.deduplicate(list)
Deduplicate ==
  /\ dpPc = "input"
  /\ dpOut' = deduplicate(dpIn)
  /\ dpPc' = "deduplicated"
  /\ UNCHANGED <<dpIn, dpOut2, extractVars, sweepVars, scrapeVars, helperVars>>

\* deduplicate called on the list the first call returned.
DeduplicateAgain ==
  /\ dpPc = "deduplicated"
  /\ ~dpOut.thrown
  /\ dpOut2' = deduplicate(dpOut.value)
  /\ dpPc' = "deduplicated twice"
  /\ UNCHANGED <<dpIn, dpOut, extractVars, sweepVars, scrapeVars, helperVars>>

\* processed = DataProcessor.preFilter(list)
PreFilter ==
  /\ dpPc = "input"
  /\ dpOut' = Returned(preFilter(dpIn))
  /\ dpPc' = "filtered"
  /\ UNCHANGED <<dpIn, dpOut2, extractVars, sweepVars, scrapeVars, helperVars>>

\* The records Phase 5 tells apart: those of preFilter, a name that differs
\* in case only, and a name that is no string.
NormalizeStores ==
  FilterStores
  \cup {Store(Str(<<"A">>), Str(<<"b">>), Undef, "null", "null", "json-ld"),
        Store(NonStr, Str(<<"b">>), Undef, "null", "null", "api-dynamic")}

InitNormalize ==
  /\ dpIn \in SeqOfLen(NormalizeStores, MaxFilterLen)
  /\ dpOut = Returned(<<>>) /\ dpOut2 = Returned(<<>>) /\ dpPc = "input"
  /\ ExtractIdle /\ SweepIdle /\ ScrapeIdle /\ HelperIdle

\* Phase 5: processed = preFilter(allStores); processed = deduplicate(processed)
Normalize ==
  /\ dpPc = "input"
  /\ dpOut' = deduplicate(preFilter(dpIn))
  /\ dpPc' = "normalized"
  /\ UNCHANGED <<dpIn, dpOut2, extractVars, sweepVars, scrapeVars, helperVars>>

NextNormalize == Normalize

SpecNormalize == InitNormalize /\ [][NextNormalize]_vars

NextDedup == Deduplicate \/ DeduplicateAgain

SpecDedup == InitDedup /\ [][NextDedup]_vars

NextFilter == PreFilter

SpecFilter == InitFilter /\ [][NextFilter]_vars

\* ------------------------------------------- HTMLExtractor, called alone

InitExtract ==
  /\ exPattern \in Patterns
  /\ exDoc \in Documents
  /\ exCtx \in {"page", "frame", "detached"}
  /\ exCheerio = Returned(<<>>) /\ exPuppeteer = Returned(<<>>) /\ exPc = "input"
  /\ DataIdle /\ SweepIdle /\ ScrapeIdle /\ HelperIdle

\* stores = await HTMLExtractor.extractWithCheerio(html, pattern)
ExtractCheerio ==
  /\ exPc \in {"input", "puppeteer"}
  /\ exCheerio' = extractWithCheerio(exDoc, exPattern)
  /\ exPc' = IF exPc = "input" THEN "cheerio" ELSE "both"
  /\ UNCHANGED <<exPattern, exDoc, exCtx, exPuppeteer, dataVars, sweepVars, scrapeVars, helperVars>>

\* stores = await HTMLExtractor.extractWithPuppeteer(context, pattern)
ExtractPuppeteer ==
  /\ exPc \in {"input", "cheerio"}
  /\ exPuppeteer' = extractWithPuppeteer(exCtx, exDoc, exPattern)
  /\ exPc' = IF exPc = "input" THEN "puppeteer" ELSE "both"
  /\ UNCHANGED <<exPattern, exDoc, exCtx, exCheerio, dataVars, sweepVars, scrapeVars, helperVars>>

NextExtract == ExtractCheerio \/ ExtractPuppeteer

SpecExtract == InitExtract /\ [][NextExtract]_vars

\* ---------------------------------- APIHandler.getValueByPath, called alone

InitPath ==
  /\ gvObj \in JObjects \cup {JNull}
  /\ gvPath \in Paths
  /\ gvOut = JEmpty /\ gvPc = "input"
  /\ DataIdle /\ ExtractIdle /\ SweepIdle /\ ScrapeIdle /\ ScriptIdle /\ GridIdle /\ OracleIdle
  /\ MoreIdle

\* store[key] = this.getValueByPath(item, path)
GetValueByPath ==
  /\ gvPc = "input"
  /\ gvOut' = getValueByPath(gvObj, gvPath)
  /\ gvPc' = "returned"
  /\ UNCHANGED <<gvObj, gvPath, dataVars, extractVars, sweepVars, scrapeVars, scriptVars, gridVars, oracleVars,
                 moreVars>>

NextPath == GetValueByPath

SpecPath == InitPath /\ [][NextPath]_vars

\* ------------------------------- ScriptDataExtractor.extract, called alone

InitScript ==
  /\ sdPayload \in Payloads
  /\ sdPrefix \in Junk /\ sdSuffix \in Junk
  /\ sdKeep \in 0..Len(Blob(sdPayload))
  /\ sdOut = Returned(<<>>) /\ sdPc = "input"
  /\ DataIdle /\ ExtractIdle /\ SweepIdle /\ ScrapeIdle /\ PathIdle /\ GridIdle /\ OracleIdle
  /\ MoreIdle

\* ScriptDataExtractor.extract(html) on a document with one script element.
ExtractScript ==
  /\ sdPc = "input"
  /\ sdOut' = Returned(extractScript(ScriptText(sdPayload, sdPrefix, sdSuffix, sdKeep)))
  /\ sdPc' = "returned"
  /\ UNCHANGED <<sdPayload, sdPrefix, sdSuffix, sdKeep>>
  /\ UNCHANGED <<dataVars, extractVars, sweepVars, scrapeVars, pathVars, gridVars, oracleVars,
                 moreVars>>

NextScript == ExtractScript

SpecScript == InitScript /\ [][NextScript]_vars

\* ---------------------------- APIHandler.generateCoordinateGrid, called alone

InitGrid ==
  /\ latStep \in GridSteps /\ lngStep \in GridSteps
  /\ ocean \in {"land", "ocean", "south"}
  /\ gridLat = -90 /\ gridLng = -180 /\ cells = <<>> /\ boxes = <<>> /\ gridPc = "loop"
  /\ DataIdle /\ ExtractIdle /\ SweepIdle /\ ScrapeIdle /\ PathIdle /\ ScriptIdle /\ OracleIdle
  /\ MoreIdle

\* One iteration of the inner loop, with the `lng +=` that follows it and, when
\* that ends the inner loop, the `lat +=` of the outer loop and `lng = -180`.
GridCell ==
  /\ gridPc = "loop" /\ gridLat < 90 /\ gridLng < 180
  /\ LET box == Box(gridLat, gridLng, latStep, lngStep)
     IN /\ cells' = Append(cells, box)
        /\ boxes' = IF isOcean(ocean, box) THEN boxes ELSE push(boxes, box)
  /\ IF gridLng + lngStep < 180
     THEN gridLng' = gridLng + lngStep /\ UNCHANGED gridLat
     ELSE gridLng' = -180 /\ gridLat' = gridLat + latStep
  /\ UNCHANGED <<latStep, lngStep, ocean, gridPc>>
  /\ UNCHANGED <<dataVars, extractVars, sweepVars, scrapeVars, pathVars, scriptVars, oracleVars,
                 moreVars>>

\* The outer loop ends: return boxes.
GridReturn ==
  /\ gridPc = "loop" /\ ~(gridLat < 90)
  /\ gridPc' = "returned"
  /\ UNCHANGED <<latStep, lngStep, ocean, gridLat, gridLng, cells, boxes>>
  /\ UNCHANGED <<dataVars, extractVars, sweepVars, scrapeVars, pathVars, scriptVars, oracleVars,
                 moreVars>>

NextGrid == GridCell \/ GridReturn

SpecGrid == InitGrid /\ [][NextGrid]_vars

\* ------------------------------------- PatternDetector, called alone

Detectors == {"html", "api", "mapping"}

\* The values JSON.parse can make of a reply to a detector.
ReplyValues(detector) ==
  IF detector = "html" THEN OracleReplies
  ELSE IF detector = "api" THEN ApiReplies
  ELSE MappingReplies

\* What the catch of a detector returns.
Neutral(detector) ==
  IF detector = "html" THEN getFallbackPattern
  ELSE IF detector = "api" THEN NullInfo
  ELSE "null"

detect(detector, empty, reply) ==
  IF detector = "html" THEN detectHTMLPattern(empty, reply)
  ELSE IF detector = "api" THEN detectCoordinateAPI(empty, reply)
  ELSE detectApiDataMapping(reply)

InitOracle ==
  /\ orDetector \in Detectors
  /\ orEmpty \in (IF orDetector = "mapping" THEN {FALSE} ELSE BOOLEAN)
  /\ orAttempt = 0 /\ orReply = NoReply /\ orOut = Neutral(orDetector) /\ orPc = "called"
  /\ DataIdle /\ ExtractIdle /\ SweepIdle /\ ScrapeIdle /\ PathIdle /\ ScriptIdle /\ GridIdle
  /\ MoreIdle

\* The lines of a detector before its try: the early return on an empty input.
OracleCall ==
  /\ orPc = "called"
  /\ IF orEmpty
     THEN orPc' = "returned" /\ orOut' = detect(orDetector, TRUE, NoReply)
     ELSE orPc' = "requesting" /\ UNCHANGED orOut
  /\ UNCHANGED <<orDetector, orEmpty, orAttempt, orReply>>
  /\ UNCHANGED <<dataVars, extractVars, sweepVars, scrapeVars, pathVars, scriptVars, gridVars,
                 moreVars>>

\* One iteration of the loop of withRetry: fn() resolves with a response, or
\* throws, which is rethrown when i is retries - 1 and else followed by a sleep.
OracleAttempt ==
  /\ orPc = "requesting"
  /\ \/ /\ \E r \in {[kind |-> "nobody"], [kind |-> "unparsable"]}
                    \cup {JsonReply(v) : v \in ReplyValues(orDetector)} : orReply' = r
        /\ orPc' = "replied" /\ UNCHANGED orAttempt
     \/ /\ orAttempt = RETRY_COUNT - 1
        /\ orReply' = OracleError /\ orPc' = "replied" /\ UNCHANGED orAttempt
     \/ /\ orAttempt < RETRY_COUNT - 1
        /\ orAttempt' = orAttempt + 1 /\ UNCHANGED <<orReply, orPc>>
  /\ UNCHANGED <<orDetector, orEmpty, orOut>>
  /\ UNCHANGED <<dataVars, extractVars, sweepVars, scrapeVars, pathVars, scriptVars, gridVars,
                 moreVars>>

\* The rest of the try of the detector, or its catch.
OracleReturn ==
  /\ orPc = "replied"
  /\ orOut' = detect(orDetector, FALSE, orReply)
  /\ orPc' = "returned"
  /\ UNCHANGED <<orDetector, orEmpty, orAttempt, orReply>>
  /\ UNCHANGED <<dataVars, extractVars, sweepVars, scrapeVars, pathVars, scriptVars, gridVars,
                 moreVars>>

NextOracle == OracleCall \/ OracleAttempt \/ OracleReturn

SpecOracle == InitOracle /\ [][NextOracle]_vars

\* --------------------- APIHandler.mapItemWithDynamicPattern, called alone

InitMap ==
  /\ mpItem \in CoordinateItems
  /\ mpMapping \in CoordinateMappings
  /\ mpStore = [key \in CoordinateKeys |-> JAbsent] /\ mpPc = "input"
  /\ DataIdle /\ ExtractIdle /\ SweepIdle /\ ScrapeIdle
  /\ PathIdle /\ ScriptIdle /\ GridIdle /\ OracleIdle /\ RetryIdle /\ ClickIdle
  /\ LateIdle

\* items.map(item => this.mapItemWithDynamicPattern(item, dynamicMapping))
MapItem ==
  /\ mpPc = "input"
  /\ mpStore' = mapItemCoordinates(mpItem, mpMapping)
  /\ mpPc' = "returned"
  /\ UNCHANGED <<mpItem, mpMapping>>
  /\ UNCHANGED <<dataVars, extractVars, sweepVars, scrapeVars, pathVars, scriptVars,
                 gridVars, oracleVars, retryVars, clickVars, lateVars>>

NextMap == MapItem

SpecMap == InitMap /\ [][NextMap]_vars

\* ------------------------------------------------- withRetry, called alone

\* CONFIG.RETRY_DELAY, in milliseconds
RETRY_DELAY == 2000

\* Largest retries a call is given.
MaxRetries == 4

\* Mutant: the test that never holds inside the loop.
lastAttemptNever(i, retries) == i = retries

\* `if (i === retries - 1) throw error`
lastAttempt(i, retries) == i = retries - 1

\* `CONFIG.RETRY_DELAY * (i + 1)`
backoff(i) == RETRY_DELAY * (i + 1)

InitRetry ==
  /\ rtRetries \in 0..MaxRetries
  /\ rtPlan \in [1..MaxRetries -> {"resolves", "throws"}]
  /\ rtI = 0 /\ rtCalls = 0 /\ rtSleeps = <<>>
  /\ rtOut = [kind |-> "pending"] /\ rtPc = "loop"
  /\ DataIdle /\ ExtractIdle /\ SweepIdle /\ ScrapeIdle
  /\ PathIdle /\ ScriptIdle /\ GridIdle /\ OracleIdle /\ MapIdle /\ ClickIdle
  /\ LateIdle

\* One iteration of the for loop: fn is invoked; its value is returned, or
\* its error is rethrown on the last attempt and else followed by the sleep
\* and the i++.  An error is told apart by the invocation that threw it.
RetryAttempt ==
  /\ rtPc = "loop" /\ rtI < rtRetries
  /\ rtCalls' = rtCalls + 1
  /\ IF rtPlan[rtCalls + 1] = "resolves"
     THEN /\ rtOut' = [kind |-> "value", call |-> rtCalls + 1]
          /\ rtPc' = "returned" /\ UNCHANGED <<rtI, rtSleeps>>
     ELSE IF lastAttempt(rtI, rtRetries)
     THEN /\ rtOut' = [kind |-> "thrown", call |-> rtCalls + 1]
          /\ rtPc' = "returned" /\ UNCHANGED <<rtI, rtSleeps>>
     ELSE /\ rtSleeps' = Append(rtSleeps, backoff(rtI))
          /\ rtI' = rtI + 1
          /\ UNCHANGED <<rtOut, rtPc>>
  /\ UNCHANGED <<rtRetries, rtPlan>>
  /\ UNCHANGED <<dataVars, extractVars, sweepVars, scrapeVars, pathVars, scriptVars,
                 gridVars, oracleVars, mapVars, clickVars, lateVars>>

\* The loop ends without a return or a throw: the call resolves with undefined.
RetryFallThrough ==
  /\ rtPc = "loop" /\ ~(rtI < rtRetries)
  /\ rtOut' = [kind |-> "undefined"] /\ rtPc' = "returned"
  /\ UNCHANGED <<rtRetries, rtPlan, rtI, rtCalls, rtSleeps>>
  /\ UNCHANGED <<dataVars, extractVars, sweepVars, scrapeVars, pathVars, scriptVars,
                 gridVars, oracleVars, mapVars, clickVars, lateVars>>

NextRetry == RetryAttempt \/ RetryFallThrough

SpecRetry == InitRetry /\ [][NextRetry]_vars

\* --------------------------------- the show-more loop of scrape, run alone

\* The 20 of `while (clicks < 20)` and of `if (clicks == 20)`
SHOW_MORE_CAP == 20

\* Mutant: `<=` where the while loop tests `<`.
mayClickAtCap(clicks) == clicks <= SHOW_MORE_CAP

\* `while (clicks < 20)`
mayClick(clicks) == clicks < SHOW_MORE_CAP

\* The loop is entered with a pattern that has a showMoreSelector, on the
\* main page and the iframe contexts.
InitClick ==
  /\ smContexts \in 0..MaxFrames
  /\ smCtx = 0 /\ smClicks = 0 /\ smHasSelector = TRUE
  /\ smStop = "none" /\ smLog = <<>> /\ smPc = "clicking"
  /\ DataIdle /\ ExtractIdle /\ SweepIdle /\ ScrapeIdle
  /\ PathIdle /\ ScriptIdle /\ GridIdle /\ OracleIdle /\ MapIdle /\ RetryIdle
  /\ LateIdle

\* One iteration of the while loop: the wait, the scroll and the click
\* succeed, which they can only with a selector, and clicks++; or one of them
\* throws (as `htmlPattern.showMoreSelector` itself does on a null pattern, and
\* as the content() and screenshot of the 20th click can), and the catch breaks.
ShowMoreClick ==
  /\ smPc = "clicking" /\ mayClick(smClicks)
  /\ \/ /\ smHasSelector
        /\ smClicks' = smClicks + 1 /\ UNCHANGED <<smStop, smPc>>
     \/ /\ smStop' = "failure" /\ smPc' = "reextract" /\ UNCHANGED smClicks
     \/ /\ smHasSelector /\ smClicks + 1 = SHOW_MORE_CAP
        /\ smClicks' = smClicks + 1 /\ smStop' = "failure" /\ smPc' = "reextract"
  /\ UNCHANGED <<smContexts, smCtx, smHasSelector, smLog>>
  /\ UNCHANGED <<dataVars, extractVars, sweepVars, scrapeVars, pathVars, scriptVars,
                 gridVars, oracleVars, mapVars, retryVars, lateVars>>

\* The test of the while loop fails.
ShowMoreCapped ==
  /\ smPc = "clicking" /\ ~mayClick(smClicks)
  /\ smStop' = "cap" /\ smPc' = "reextract"
  /\ UNCHANGED <<smContexts, smCtx, smClicks, smHasSelector, smLog>>
  /\ UNCHANGED <<dataVars, extractVars, sweepVars, scrapeVars, pathVars, scriptVars,
                 gridVars, oracleVars, mapVars, retryVars, lateVars>>

\* Lines 1177-1184: the content of the context, a new detection after 20
\* clicks, and the two extractions; then the next context.  A rejection of
\* content() and a throw of extractWithCheerio go to the catch at line 1185,
\* which is outside the for loop over the contexts.
ShowMoreReextract ==
  /\ smPc = "reextract"
  /\ \E outcome \in {"extracted", "gone", "threw"}, redetected \in BOOLEAN :
       /\ smLog' = Append(smLog, [ctx |-> smCtx, clicks |-> smClicks, stop |-> smStop,
                                  outcome |-> outcome])
       /\ smHasSelector' = IF smClicks = SHOW_MORE_CAP /\ outcome # "gone"
                           THEN redetected ELSE smHasSelector
       /\ IF outcome = "extracted" /\ smCtx < smContexts
          THEN smCtx' = smCtx + 1 /\ smClicks' = 0 /\ smStop' = "none" /\ smPc' = "clicking"
          ELSE smPc' = "done" /\ UNCHANGED <<smCtx, smClicks, smStop>>
  /\ UNCHANGED smContexts
  /\ UNCHANGED <<dataVars, extractVars, sweepVars, scrapeVars, pathVars, scriptVars,
                 gridVars, oracleVars, mapVars, retryVars, lateVars>>

NextClick == ShowMoreClick \/ ShowMoreCapped \/ ShowMoreReextract

SpecClick == InitClick /\ [][NextClick]_vars

\* ------------- ScriptDataExtractor.extract on several script elements

EarlyIdle ==
  /\ DataIdle /\ ExtractIdle /\ SweepIdle /\ ScrapeIdle /\ PathIdle /\ ScriptIdle
  /\ GridIdle /\ OracleIdle /\ MapIdle /\ RetryIdle /\ ClickIdle

\* Most script elements of a document.
MaxScripts == 3

\* The script elements of the model: one with an object of one record after
\* other text, one with an object of two records, one whose braces balance
\* around text that is no JSON, one without the key, and an empty one.
ScriptKinds == {"one", "two", "broken", "plain", "empty"}

ScriptElement(kind) ==
  IF kind = "one" THEN <<"x">> \o Blob(<<<<"A">>>>) \o <<"x">>
  ELSE IF kind = "two" THEN Blob(<<<<"{">>, <<"A">>>>)
  ELSE IF kind = "broken"
  THEN LET blob == Blob(<<<<"A">>>>) IN SubSeq(blob, 1, Len(blob) - 2) \o <<"}">>
  ELSE IF kind = "plain" THEN <<"x", "{", "}">>
  ELSE <<>>

\* txt.slice(start, end) as JSON.parse receives it; the empty text when the
\* callback returns before it.
jsonSlice(raw) ==
  LET txt == replaceEscapedQuotes(raw, 1)
      start == indexOf(txt, Opener)
  IN IF raw = <<>> \/ start = 0 THEN <<>>
     ELSE LET last == balanceBraces(txt, start, 0, FALSE, FALSE)
          IN IF last = 0 THEN <<>> ELSE SubSeq(txt, start, last)

\* JSON.parse throws in the callback on this element.
parseThrows(raw) == jsonSlice(raw) # <<>> /\ ~JSONparse(jsonSlice(raw)).ok

InitBlocks ==
  /\ sbBlocks \in UNION {[1..n -> ScriptKinds] : n \in 0..MaxScripts}
  /\ sbI = 1 /\ sbStores = <<>> /\ sbPc = "each"
  /\ EarlyIdle /\ ParsedIdle /\ StatsIdle /\ ResponseIdle /\ LoopIdle /\ GateIdle

\* Mutant: no try around JSON.parse, so its SyntaxError leaves each and extract.
ScriptEachUncaught ==
  /\ sbPc = "each" /\ sbI <= Len(sbBlocks)
  /\ IF parseThrows(ScriptElement(sbBlocks[sbI]))
     THEN sbPc' = "thrown" /\ UNCHANGED <<sbI, sbStores>>
     ELSE /\ sbStores' = sbStores \o extractScript(ScriptElement(sbBlocks[sbI]))
          /\ sbI' = sbI + 1 /\ UNCHANGED sbPc
  /\ UNCHANGED <<sbBlocks, earlyVars, parsedVars, statsVars, responseVars, loopVars, gateVars>>

\* The callback of $('script').each on the next script element.
ScriptEach ==
  /\ sbPc = "each" /\ sbI <= Len(sbBlocks)
  /\ sbStores' = sbStores \o extractScript(ScriptElement(sbBlocks[sbI]))
  /\ sbI' = sbI + 1
  /\ UNCHANGED <<sbBlocks, sbPc, earlyVars, parsedVars, statsVars, responseVars, loopVars, gateVars>>

\* `return stores` after the last element.
ScriptReturn ==
  /\ sbPc = "each" /\ sbI > Len(sbBlocks)
  /\ sbPc' = "returned"
  /\ UNCHANGED <<sbBlocks, sbI, sbStores, earlyVars, parsedVars, statsVars, responseVars, loopVars, gateVars>>

NextBlocks == ScriptEach \/ ScriptReturn

SpecBlocks == InitBlocks /\ [][NextBlocks]_vars

\* ------- ScriptDataExtractor.extract, steps 5 and 6, on a parsed object

(***************************************************************************)
(* What JSON.parse returns: null, a number, a string (a sequence of words), *)
(* an array of such values, or an object, whose entries are kept in the     *)
(* order of the text as for...in visits them.  PUndef is what reading a     *)
(* property that is not there gives.                                        *)
(***************************************************************************)
PUndef == [t |-> "undef"]

PNull == [t |-> "null"]

PNumber(n) == [t |-> "num", n |-> n]

PString(words) == [t |-> "str", s |-> words]

PArray(elements) == [t |-> "arr", e |-> elements]

PObject(entries) == [t |-> "obj", e |-> entries]

Entry(key, value) == [k |-> key, v |-> value]

\* Array.isArray
isArray(v) == v.t = "arr"

\* typeof v === 'object', which holds of null and of arrays too.
typeofObject(v) == v.t \in {"null", "arr", "obj"}

\* v == null, the test of ?. and of ??
Nullish(v) == v.t \in {"null", "undef"}

PTruthy(v) ==
  \/ v.t \in {"arr", "obj"}
  \/ (v.t = "num" /\ v.n # 0)
  \/ (v.t = "str" /\ v.s # <<>>)

\* v[key] on a value that is neither null nor undefined, for the keys the
\* code reads, none of which a prototype defines.
PGet(v, key) ==
  IF v.t = "obj" /\ \E i \in 1..Len(v.e) : v.e[i].k = key
  THEN v.e[CHOOSE i \in 1..Len(v.e) : v.e[i].k = key].v
  ELSE PUndef

\* v?.[key]
PGetOptional(v, key) == IF Nullish(v) THEN PUndef ELSE PGet(v, key)

\* a || b
POr(a, b) == IF PTruthy(a) THEN a ELSE b

\* a ?? b
PCoalesce(a, b) == IF Nullish(a) THEN b ELSE a

\* Mutant: `!== null` added to the typeof test of the first element.
firstIsObjectNotNull(v) == typeofObject(v.e[1]) /\ v.e[1].t # "null"

\* `typeof v[0] === 'object'`
firstIsObject(v) == typeofObject(v.e[1])

\* The values for...in visits: the values of an object, the elements of an array.
ValuesOf(obj) == IF obj.t = "obj" THEN [i \in 1..Len(obj.e) |-> obj.e[i].v] ELSE obj.e

\* ScriptDataExtractor.findFirstObjectArray; its null is PNull.
RECURSIVE findFirstObjectArray(_)
RECURSIVE findFirstFrom(_, _)
findFirstFrom(values, i) ==
  IF i > Len(values) THEN PNull
  ELSE LET v == values[i] IN
       IF isArray(v) /\ Len(v.e) > 0 /\ firstIsObject(v) THEN v
       ELSE LET nested == IF typeofObject(v) THEN findFirstObjectArray(v) ELSE PNull
            IN IF PTruthy(nested) THEN nested ELSE findFirstFrom(values, i + 1)

findFirstObjectArray(obj) ==
  IF ~PTruthy(obj) \/ ~typeofObject(obj) THEN PNull
  ELSE findFirstFrom(ValuesOf(obj), 1)

\* Step 5: the array taken from the parsed object.
storeArray(obj) ==
  IF isArray(PGet(obj, "stores")) THEN PGet(obj, "stores")
  ELSE IF PTruthy(PGet(obj, "page")) /\ isArray(PGet(PGet(obj, "page"), "items"))
  THEN PGet(PGet(obj, "page"), "items")
  ELSE findFirstObjectArray(obj)

\* The template literal of the address, for a street1 and a street2 that are
\* strings.
streetAddress(address) ==
  PString(PGet(address, "street1").s
          \o (IF PTruthy(PGet(address, "street2"))
              THEN <<"-">> \o PGet(address, "street2").s ELSE <<>>))

\* Mutant: the nested value is read before the top-level one.
nestedFirst(top, nested) == POr(POr(nested, top), PString(<<>>))

\* `s.f || s.address?.g || ''`
topFirst(top, nested) == POr(POr(top, nested), PString(<<>>))

\* The callback of arr.forEach on the element s: the object pushed, or the
\* TypeError of `s.name` on null.
normalizeItem(s) ==
  IF Nullish(s) THEN Thrown
  ELSE LET address == PGet(s, "address") IN
       Returned(
         [name |-> POr(PGet(s, "name"), PString(<<>>)),
          address |-> POr(IF PTruthy(PGetOptional(address, "street1"))
                          THEN streetAddress(address) ELSE address,
                          PString(<<>>)),
          city |-> topFirst(PGet(s, "city"), PGetOptional(address, "city")),
          postal_code |-> topFirst(PGet(s, "postal_code"), PGetOptional(address, "zipcode")),
          country |-> topFirst(PGet(s, "country"), PGetOptional(address, "country")),
          latitude |-> PCoalesce(PCoalesce(PGetOptional(PGet(s, "position"), "lat"),
                                           PGet(s, "latitude")), PNull),
          longitude |-> PCoalesce(PCoalesce(PGetOptional(PGet(s, "position"), "lng"),
                                            PGet(s, "longitude")), PNull),
          url |-> POr(POr(PGet(s, "google_maps_url"), PGet(s, "url")), PString(<<>>)),
          source |-> "inline-script"])

\* arr.forEach from element i on, after the objects in acc were pushed.
RECURSIVE normalizeFrom(_, _, _)
normalizeFrom(arr, i, acc) ==
  IF i > Len(arr) THEN Returned(acc)
  ELSE LET one == normalizeItem(arr[i])
       IN IF one.thrown THEN Thrown ELSE normalizeFrom(arr, i + 1, Append(acc, one.value))

\* Steps 5 and 6 on the parsed object.
extractParsed(obj) ==
  LET arr == storeArray(obj)
  IN IF ~isArray(arr) THEN Returned(<<>>) ELSE normalizeFrom(arr.e, 1, <<>>)

\* Longest array of the parsed objects whose elements are of several kinds.
MaxArrayLen == 2

\* The entries of an item: a name; city, postal_code and country absent,
\* empty or present at the top level; an address that is absent, null, a
\* string, or an object with or without street1 and street2 that holds city,
\* zipcode and country or none of them; and coordinates in position, at the
\* top level (where they are 0), or nowhere.
TopEntries(top) ==
  IF top = "absent" THEN <<>>
  ELSE LET w == IF top = "empty" THEN <<>> ELSE <<"top">>
       IN <<Entry("city", PString(w)), Entry("postal_code", PString(w)),
            Entry("country", PString(w))>>

NestedEntries ==
  <<Entry("city", PString(<<"nested">>)), Entry("zipcode", PString(<<"nested">>)),
    Entry("country", PString(<<"nested">>))>>

AddressEntries(address) ==
  IF address = "absent" THEN <<>>
  ELSE IF address = "null" THEN <<Entry("address", PNull)>>
  ELSE IF address = "string" THEN <<Entry("address", PString(<<"road">>))>>
  ELSE IF address = "bare" THEN <<Entry("address", PObject(<<>>))>>
  ELSE IF address = "places" THEN <<Entry("address", PObject(NestedEntries))>>
  ELSE IF address = "street"
  THEN <<Entry("address", PObject(<<Entry("street1", PString(<<"road">>))>> \o NestedEntries))>>
  ELSE <<Entry("address", PObject(<<Entry("street1", PString(<<"road">>)),
                                    Entry("street2", PString(<<"floor">>))>>))>>

CoordinateEntries(coords) ==
  IF coords = "position"
  THEN <<Entry("position", PObject(<<Entry("lat", PNumber(7)), Entry("lng", PNumber(7))>>))>>
  ELSE IF coords = "flat"
  THEN <<Entry("latitude", PNumber(0)), Entry("longitude", PNumber(0))>>
  ELSE <<>>

Item(named, top, address, coords) ==
  PObject((IF named THEN <<Entry("name", PString(<<"A">>))>> ELSE <<>>)
          \o TopEntries(top) \o AddressEntries(address) \o CoordinateEntries(coords))

ParsedItems ==
  {Item(named, top, address, coords) :
     named \in BOOLEAN, top \in {"absent", "empty", "present"},
     address \in {"absent", "null", "string", "bare", "places", "street", "streets"},
     coords \in {"none", "position", "flat"}}

\* The arrays: one item, or up to MaxArrayLen of an item, null, a number and
\* an array.
ParsedArrays ==
  {PArray(<<item>>) : item \in ParsedItems}
  \cup {PArray(e) : e \in SeqOfLen({Item(TRUE, "present", "places", "none"), PNull,
                                       PNumber(7), PArray(<<>>)}, MaxArrayLen)}

\* The parsed objects.  The slice starts with the key stores, so the object
\* has it first; its value is the array, or the array is in page.items, or
\* under another key, or inside the value of stores, or after an array of
\* numbers, or nowhere.
ParsedObjects ==
  UNION {{PObject(<<Entry("stores", arr)>>),
          PObject(<<Entry("stores", PNull), Entry("page", PObject(<<Entry("items", arr)>>))>>),
          PObject(<<Entry("stores", PNull), Entry("page", PNull), Entry("data", arr)>>),
          PObject(<<Entry("stores", PObject(<<Entry("list", arr)>>))>>),
          PObject(<<Entry("stores", PString(<<"x">>)), Entry("ids", PArray(<<PNumber(7)>>)),
                    Entry("data", arr)>>)} : arr \in ParsedArrays}
  \cup {PObject(<<Entry("stores", PNumber(7))>>)}

InitParsed ==
  /\ ffObj \in ParsedObjects /\ ffOut = Returned(<<>>) /\ ffPc = "parsed"
  /\ EarlyIdle /\ BlockIdle /\ StatsIdle /\ ResponseIdle /\ LoopIdle /\ GateIdle

ExtractParsed ==
  /\ ffPc = "parsed"
  /\ ffOut' = extractParsed(ffObj)
  /\ ffPc' = IF ffOut'.thrown THEN "thrown" ELSE "collected"
  /\ UNCHANGED <<ffObj, earlyVars, blockVars, statsVars, responseVars, loopVars, gateVars>>

NextParsed == ExtractParsed

SpecParsed == InitParsed /\ [][NextParsed]_vars

\* --------------------------------- DataProcessor.calculateStats, alone

\* Longest list handed to calculateStats.
MaxStatsLen == 2

\* The source tags of the records, and their coordinates: null, 0, or another
\* number.
SourceTags == {"html", "api", "inline-script"}

CoordinateValues == {"null", "zero", "num"}

StatsRecords ==
  [source : SourceTags, latitude : CoordinateValues, longitude : CoordinateValues]

\* Mutant: the test is `!= null` on both coordinates.
hasCoordinatesNotNull(store) == store.latitude # "null" /\ store.longitude # "null"

\* `store.latitude && store.longitude`
hasCoordinates(store) == TruthyNum(store.latitude) /\ TruthyNum(store.longitude)

\* by_source, an object, as the function from its keys to their counts.
\* `stats.by_source[store.source] = (stats.by_source[store.source] || 0) + 1`
countSource(by_source, source) ==
  [key \in DOMAIN by_source \cup {source} |->
     IF key = source
     THEN (IF source \in DOMAIN by_source THEN by_source[source] ELSE 0) + 1
     ELSE by_source[key]]

InitStats ==
  /\ csStores \in SeqOfLen(StatsRecords, MaxStatsLen)
  /\ csI = 1 /\ csPc = "loop"
  /\ stats = [total |-> Len(csStores), by_source |-> <<>>, with_coordinates |-> 0]
  /\ EarlyIdle /\ BlockIdle /\ ParsedIdle /\ ResponseIdle /\ LoopIdle /\ GateIdle

\* One turn of the for loop.
StatsTurn ==
  /\ csPc = "loop" /\ csI <= Len(csStores)
  /\ LET store == csStores[csI] IN
     stats' = [stats EXCEPT
                 !.by_source = countSource(@, store.source),
                 !.with_coordinates = IF hasCoordinates(store) THEN @ + 1 ELSE @]
  /\ csI' = csI + 1
  /\ UNCHANGED <<csStores, csPc, earlyVars, blockVars, parsedVars, responseVars, loopVars, gateVars>>

\* `return stats`
StatsReturn ==
  /\ csPc = "loop" /\ csI > Len(csStores)
  /\ csPc' = "returned"
  /\ UNCHANGED <<csStores, csI, stats, earlyVars, blockVars, parsedVars, responseVars, loopVars, gateVars>>

NextStats == StatsTurn \/ StatsReturn

SpecStats == InitStats /\ [][NextStats]_vars

\* ------------------------------------ the response callback of scrape

\* Most responses the page emits during a run.
MaxResponses == 2

\* The phases of the orchestrator, counted.
LastPhase == 5

\* The timeout of the body reads, in milliseconds.
BODY_TIMEOUT == 3000

\* What a response is to the callback: a URL whose host holds an entry of
\* IGNORE_HOSTS, another host, or a URL that `new URL` rejects; and a
\* content-type header that holds application/json, holds text/html, holds
\* neither, or is missing.
ResponseHosts == {"ignored", "other", "invalid"}

ContentTypes == {"json", "html", "image", "missing"}

\* How a body read can go: it resolves in time with a value or with a falsy
\* one, rejects in time, or takes this many milliseconds and more.
BodyReads == {[ms |-> 0, body |-> "value"], [ms |-> 0, body |-> "falsy"],
              [ms |-> 0, body |-> "rejects"], [ms |-> BODY_TIMEOUT, body |-> "value"]}

\* Mutant: no host is skipped.
ignoresNoHost(host) == FALSE

\* `IGNORE_HOSTS.some(sub => hostname.includes(sub))`
ignoresHost(host) == host = "ignored"

\* withTimeout(promise, 3000).catch(() => null): the value of the body when
\* the read resolves before the timer fires, else null.
withTimeout(read) == IF read.ms < BODY_TIMEOUT /\ read.body = "value" THEN "value" ELSE "null"

InitResponse ==
  /\ rsSeen = <<>> /\ rsPc = <<>> /\ rsEnd = <<>> /\ apiResponses = <<>> /\ rsPhase = 1
  /\ EarlyIdle /\ BlockIdle /\ ParsedIdle /\ StatsIdle /\ LoopIdle /\ GateIdle

\* The page emits a response and the callback is called with it.
ResponseEmitted ==
  /\ rsPhase \in 1..LastPhase /\ Len(rsSeen) < MaxResponses
  /\ \E host \in ResponseHosts, type \in ContentTypes :
       rsSeen' = Append(rsSeen, [host |-> host, type |-> type])
  /\ rsPc' = Append(rsPc, "start") /\ rsEnd' = Append(rsEnd, "pending")
  /\ UNCHANGED <<apiResponses, rsPhase>>
  /\ UNCHANGED <<earlyVars, blockVars, parsedVars, statsVars, loopVars, gateVars>>

\* The callback up to its first await: the URL, the host test and the
\* content-type tests.  What `new URL` throws is caught at the end.
HandlerStart ==
  \E i \in 1..Len(rsSeen) :
    /\ rsPc[i] = "start"
    /\ LET r == rsSeen[i]
           go == IF r.host = "invalid" THEN <<"done", "caught">>
                 ELSE IF ignoresHost(r.host) THEN <<"done", "skipped">>
                 ELSE IF r.type = "json" THEN <<"json", "pending">>
                 ELSE IF r.type = "html" THEN <<"text", "pending">>
                 ELSE <<"done", "untyped">>
       IN rsPc' = [rsPc EXCEPT ![i] = go[1]] /\ rsEnd' = [rsEnd EXCEPT ![i] = go[2]]
    /\ UNCHANGED <<rsSeen, apiResponses, rsPhase>>
    /\ UNCHANGED <<earlyVars, blockVars, parsedVars, statsVars, loopVars, gateVars>>

\* The callback after its await: the body or null, and the push.
HandlerBody ==
  \E i \in 1..Len(rsSeen), read \in BodyReads :
    /\ rsPc[i] \in {"json", "text"}
    /\ LET data == withTimeout(read) IN
       /\ apiResponses' =
            IF data = "value"
            THEN Append(apiResponses,
                        [response |-> i,
                         contentType |-> IF rsPc[i] = "json" THEN "application/json"
                                         ELSE "text/html"])
            ELSE apiResponses
       /\ rsEnd' = [rsEnd EXCEPT ![i] =
                      IF data = "value" THEN "pushed"
                      ELSE IF read.ms >= BODY_TIMEOUT THEN "timeout" ELSE read.body]
    /\ rsPc' = [rsPc EXCEPT ![i] = "done"]
    /\ UNCHANGED <<rsSeen, rsPhase>>
    /\ UNCHANGED <<earlyVars, blockVars, parsedVars, statsVars, loopVars, gateVars>>

\* The orchestrator goes from a phase to the next, or returns.
PhaseEnds ==
  /\ rsPhase \in 1..LastPhase
  /\ rsPhase' = rsPhase + 1
  /\ UNCHANGED <<rsSeen, rsPc, rsEnd, apiResponses>>
  /\ UNCHANGED <<earlyVars, blockVars, parsedVars, statsVars, loopVars, gateVars>>

NextResponse == ResponseEmitted \/ HandlerStart \/ HandlerBody \/ PhaseEnds

SpecResponse == InitResponse /\ [][NextResponse]_vars

\* -------------- the loops of generateCoordinateGrid under a configuration

\* What the environment can hold for a grid step: nothing, text that
\* parseFloat reads as NaN, 0, or a number that is not 0, among them negative
\* ones and ones larger than the range of the coordinate.
EnvSteps ==
  {[k |-> "unset", n |-> 0], [k |-> "NaN", n |-> 0]}
  \cup {[k |-> "number", n |-> n] : n \in {0, -30, -400, 30, 45, 400}}

\* `parseFloat(process.env.GRID_LAT_STEP) || 30`
configuredStep(env) == IF env.k # "number" \/ env.n = 0 THEN 30 ELSE env.n

\* A double no longer changes under `+= step` once its magnitude is large
\* enough; the model puts that point here.
Saturation == 720

\* `x += step`
addStep(x, step) ==
  IF x + step < -Saturation THEN -Saturation
  ELSE IF x + step > Saturation THEN Saturation
  ELSE x + step

InitLoop ==
  /\ envLatStep \in EnvSteps /\ envLngStep \in EnvSteps
  /\ loopLat = -90 /\ loopLng = -180 /\ loopPc = "loop"
  /\ EarlyIdle /\ BlockIdle /\ ParsedIdle /\ StatsIdle /\ ResponseIdle /\ GateIdle

\* One iteration of the inner loop and its `lng +=`.
LoopCell ==
  /\ loopPc = "loop" /\ loopLat < 90 /\ loopLng < 180
  /\ loopLng' = addStep(loopLng, configuredStep(envLngStep))
  /\ UNCHANGED <<envLatStep, envLngStep, loopLat, loopPc>>
  /\ UNCHANGED <<earlyVars, blockVars, parsedVars, statsVars, responseVars, gateVars>>

\* The inner loop ends: `lat +=` and, when the outer loop goes on, `lng = -180`.
LoopRow ==
  /\ loopPc = "loop" /\ loopLat < 90 /\ ~(loopLng < 180)
  /\ loopLat' = addStep(loopLat, configuredStep(envLatStep))
  /\ loopLng' = IF loopLat' < 90 THEN -180 ELSE loopLng
  /\ UNCHANGED <<envLatStep, envLngStep, loopPc>>
  /\ UNCHANGED <<earlyVars, blockVars, parsedVars, statsVars, responseVars, gateVars>>

\* The outer loop ends: `return boxes`.
LoopReturn ==
  /\ loopPc = "loop" /\ ~(loopLat < 90)
  /\ loopPc' = "returned"
  /\ UNCHANGED <<envLatStep, envLngStep, loopLat, loopLng>>
  /\ UNCHANGED <<earlyVars, blockVars, parsedVars, statsVars, responseVars, gateVars>>

NextLoop == LoopCell \/ LoopRow \/ LoopReturn

\* The call is synchronous: while it can take a step it takes one.
SpecLoop == InitLoop /\ [][NextLoop]_vars /\ WF_vars(NextLoop)

\* ------------------------- the documents scrape reads around the gate

InitSnapshot ==
  /\ livePage = 0 /\ mainSnapshot = 0 /\ postClickHtml = 0
  /\ htmlToAnalyze = Merged(0, 0, 0) /\ liveFrames = 0 /\ frameContexts = Frames(0, 0)
  /\ detectedOn = <<>> /\ phase3Read = NothingRead /\ snapPc = "goto"
  /\ EarlyIdle /\ BlockIdle /\ ParsedIdle /\ StatsIdle /\ ResponseIdle /\ LoopIdle

\* page.goto, the second goto after a redirect (which can fail, and is
\* caught), and `const mainPageHtml = await this.page.content()`.
SnapshotMain ==
  /\ snapPc = "goto"
  /\ \E redirect \in {"none", "reloaded", "failed"}, frames \in 0..MaxFrames :
       /\ livePage' = IF redirect = "reloaded" THEN 2 ELSE 1
       /\ liveFrames' = frames
  /\ mainSnapshot' = livePage'
  /\ snapPc' = "assemble"
  /\ UNCHANGED <<postClickHtml, htmlToAnalyze, frameContexts, detectedOn, phase3Read>>
  /\ UNCHANGED <<earlyVars, blockVars, parsedVars, statsVars, responseVars, loopVars>>

\* Phase 1: the iframes whose content loads become this._iframeContexts, and
\* htmlToAnalyze is mainPageHtml joined with their content; then the first
\* detection, on htmlToAnalyze.
SnapshotDetect ==
  /\ snapPc = "assemble"
  /\ \E loaded \in 0..liveFrames :
       /\ frameContexts' = Frames(livePage, loaded)
       /\ htmlToAnalyze' = Merged(mainSnapshot, livePage, loaded)
  /\ detectedOn' = Append(detectedOn, htmlToAnalyze')
  /\ \E gate \in BOOLEAN : snapPc' = IF gate THEN "gate" ELSE "extract"
  /\ UNCHANGED <<livePage, mainSnapshot, postClickHtml, liveFrames, phase3Read>>
  /\ UNCHANGED <<earlyVars, blockVars, parsedVars, statsVars, responseVars, loopVars>>

\* The htmlToAnalyze of the block of the gate, lines 1074-1077: mainPageHtml
\* joined with the content of the iframes of the reloaded page.
gateMerged(main, post, frames) == Merged(main, post, frames)

\* The try of the gate.  The click fails; or the click changes the page and
\* the reload fails; or the reload succeeds, the content of the page is read
\* into postClickHtml and the search for the iframes fails; or the iframes are
\* collected again and the second detection is made on the htmlToAnalyze that
\* is declared inside the try.  The catch at line 1100 takes every failure.
SnapshotGate ==
  /\ snapPc = "gate"
  /\ \/ UNCHANGED <<livePage, liveFrames, postClickHtml, frameContexts, detectedOn>>
     \/ /\ livePage' = livePage + 1
        /\ \E frames \in 0..MaxFrames : liveFrames' = frames
        /\ UNCHANGED <<postClickHtml, frameContexts, detectedOn>>
     \/ /\ livePage' = livePage + 2
        /\ \E frames \in 0..MaxFrames : liveFrames' = frames
        /\ postClickHtml' = livePage'
        /\ UNCHANGED <<frameContexts, detectedOn>>
     \/ /\ livePage' = livePage + 2
        /\ postClickHtml' = livePage'
        /\ \E frames \in 0..MaxFrames, loaded \in 0..MaxFrames :
             /\ loaded <= frames
             /\ liveFrames' = frames
             /\ frameContexts' = Frames(livePage', loaded)
             /\ detectedOn' =
                  Append(detectedOn, gateMerged(mainSnapshot, postClickHtml', loaded))
  /\ snapPc' = "extract"
  /\ UNCHANGED <<mainSnapshot, htmlToAnalyze, phase3Read>>
  /\ UNCHANGED <<earlyVars, blockVars, parsedVars, statsVars, responseVars, loopVars>>

\* Phase 3 on the main page: Cheerio reads mainPageHtml, Puppeteer the page.
SnapshotExtract ==
  /\ snapPc = "extract"
  /\ phase3Read' = [phase3Read EXCEPT !.cheerio = mainSnapshot, !.live = livePage]
  /\ snapPc' = "frames"
  /\ UNCHANGED <<livePage, mainSnapshot, postClickHtml, htmlToAnalyze, liveFrames,
                 frameContexts, detectedOn>>
  /\ UNCHANGED <<earlyVars, blockVars, parsedVars, statsVars, responseVars, loopVars>>

\* Phase 3b: the frames of this._iframeContexts.
SnapshotFrames ==
  /\ snapPc = "frames"
  /\ phase3Read' = [phase3Read EXCEPT !.frames = frameContexts]
  /\ snapPc' = "jsonLd"
  /\ UNCHANGED <<livePage, mainSnapshot, postClickHtml, htmlToAnalyze, liveFrames,
                 frameContexts, detectedOn>>
  /\ UNCHANGED <<earlyVars, blockVars, parsedVars, statsVars, responseVars, loopVars>>

\* Phase 3c: JSON-LD, read in mainPageHtml.
SnapshotJsonLd ==
  /\ snapPc = "jsonLd"
  /\ phase3Read' = [phase3Read EXCEPT !.jsonLd = mainSnapshot]
  /\ snapPc' = "scripts"
  /\ UNCHANGED <<livePage, mainSnapshot, postClickHtml, htmlToAnalyze, liveFrames,
                 frameContexts, detectedOn>>
  /\ UNCHANGED <<earlyVars, blockVars, parsedVars, statsVars, responseVars, loopVars>>

\* Phase 3d: the inline scripts, searched in the htmlToAnalyze of Phase 1.
SnapshotScripts ==
  /\ snapPc = "scripts"
  /\ phase3Read' = [phase3Read EXCEPT !.scripts = htmlToAnalyze]
  /\ snapPc' = "extracted"
  /\ UNCHANGED <<livePage, mainSnapshot, postClickHtml, htmlToAnalyze, liveFrames,
                 frameContexts, detectedOn>>
  /\ UNCHANGED <<earlyVars, blockVars, parsedVars, statsVars, responseVars, loopVars>>

NextSnapshot ==
  \/ SnapshotMain \/ SnapshotDetect \/ SnapshotGate
  \/ SnapshotExtract \/ SnapshotFrames \/ SnapshotJsonLd \/ SnapshotScripts

SpecSnapshot == InitSnapshot /\ [][NextSnapshot]_vars

\* ------------------------------------------------------------- the claims

\* The elements of list at the indexes satisfying Keep, in order.
AtIndexes(list, Keep(_)) ==
  LET idx == SelectSeq([i \in 1..Len(list) |-> i], Keep)
  IN [k \in 1..Len(idx) |-> list[idx[k]]]

\* The lower-cased (name, address, city) of a record, '' for a missing field.
CaseFold(s) ==
  <<toLowerCase(OrEmpty(s.name).v), toLowerCase(OrEmpty(s.address).v),
    toLowerCase(OrEmpty(s.city).v)>>

DedupReturned == dpPc \in {"deduplicated", "deduplicated twice"} /\ ~dpOut.thrown

\* C3: deduplicate is idempotent: called on the list it returned, it returns
\* the same records in the same order.
C3_DeduplicateIdempotent ==
  dpPc = "deduplicated twice" => (~dpOut2.thrown /\ dpOut2.value = dpOut.value)

\* C3 witness: a second call was made on a list the first call had shortened.
C3_Witness ==
  /\ dpPc = "deduplicated twice"
  /\ Len(dpIn) = 2 /\ Len(dpOut.value) = 1 /\ dpIn[1] # dpIn[2]

\* C4: deduplicate returns, in discovery order, exactly the first record of
\* each composite key, and no two returned records are equal up to letter case
\* in name, address and city.
C4_FirstPerKeyInOrder ==
  DedupReturned =>
    /\ dpOut.value =
         AtIndexes(dpIn, LAMBDA i : \A j \in 1..(i - 1) : storeKey(dpIn[j]) # storeKey(dpIn[i]))
    /\ \A k1, k2 \in 1..Len(dpOut.value) :
         k1 # k2 => CaseFold(dpOut.value[k1]) # CaseFold(dpOut.value[k2])

\* C4 witness: two records differing only in letter case, the earlier one kept.
C4_Witness ==
  /\ DedupReturned
  /\ Len(dpIn) = 2 /\ dpIn[1] # dpIn[2] /\ CaseFold(dpIn[1]) = CaseFold(dpIn[2])
  /\ dpIn[1].name = Str(<<"A">>) /\ dpIn[2].name = Str(<<"a">>)
  /\ dpOut.value = <<dpIn[1]>>

\* C5, as claimed: the lower-cased (name, address, city) of every record given
\* to deduplicate is that of some record it returns, so records whose triples
\* differ are never collapsed.
C5_DistinctTriplesKept ==
  DedupReturned =>
    \A i \in 1..Len(dpIn) :
      \E k \in 1..Len(dpOut.value) : CaseFold(dpOut.value[k]) = CaseFold(dpIn[i])

HasName(s) == s.name.k = "str" /\ Len(s.name.v) > 0

HasAddress(s) == s.address.k = "str" /\ Len(s.address.v) > 0

HasCity(s) == s.city.k = "str" /\ Len(s.city.v) > 0

\* Both coordinates present, 0 included.
HasCoordinatePair(s) == s.latitude # "null" /\ s.longitude # "null"

\* Both coordinates present and neither of them 0.
HasNonZeroPair(s) == s.latitude = "num" /\ s.longitude = "num"

NoItemSelector(pattern) == pattern.null \/ SelectorFalsy(pattern.itemSelector)

CheerioRan == exPc \in {"cheerio", "both"}

PuppeteerRan == exPc \in {"puppeteer", "both"}

\* C9: for a descriptor that is null or has an empty or absent itemSelector,
\* static and live extraction both return the empty list and do not throw.
C9_NoItemSelectorYieldsNothing ==
  NoItemSelector(exPattern) =>
    /\ CheerioRan => exCheerio = Returned(<<>>)
    /\ PuppeteerRan => exPuppeteer = Returned(<<>>)

\* C9 witness: both modes ran with a null descriptor on a document that has
\* elements.
C9_Witness ==
  /\ exPc = "both" /\ exPattern.null
  /\ ~exDoc.empty /\ Len(exDoc.items) > 0
  /\ exCheerio = Returned(<<>>) /\ exPuppeteer = Returned(<<>>)

\* C10, as claimed: for every descriptor with a non-empty itemSelector, static
\* extraction returns a list and throws nothing.
C10_CheerioFailsSoft ==
  (CheerioRan /\ ~NoItemSelector(exPattern)) => ~exCheerio.thrown

\* C1, as claimed: every call of scrape gives its caller a result, success or
\* failure, and never rejects.
C1_ScrapeAlwaysResolves ==
  pc = "returned" => result \in {"success", "failure"}

\* C2, as claimed: a run whose page load succeeded reaches Normalization and
\* reports success, whatever fails afterwards.
C2_SuccessOnceAcquired ==
  (pc = "returned" /\ acquired) => result = "success"

\* C7: every record of the list Phase 5 hands to the output stage, after
\* preFilter and then deduplicate, has a non-empty name or a non-empty address.
C7_OutputHasNameOrAddress ==
  (dpPc = "normalized" /\ ~dpOut.thrown) =>
    \A k \in 1..Len(dpOut.value) : HasName(dpOut.value[k]) \/ HasAddress(dpOut.value[k])

\* C7 witness: of a record with a city only and a record with a name and a
\* city, the second alone is handed on.
C7_Witness ==
  /\ dpPc = "normalized" /\ ~dpOut.thrown /\ Len(dpIn) = 2
  /\ ~HasName(dpIn[1]) /\ ~HasAddress(dpIn[1]) /\ HasCity(dpIn[1])
  /\ HasName(dpIn[2]) /\ ~HasAddress(dpIn[2]) /\ HasCity(dpIn[2])
  /\ dpOut.value = <<dpIn[2]>>

\* C8: a box is requested only while consecutiveEmpty is below MAX_EMPTY_BOXES;
\* each requested box that yields no record (an empty or unmapped response, a
\* failed request) adds one to consecutiveEmpty and each that yields a record
\* resets it to 0; nothing else changes it, so it never exceeds MAX_EMPTY_BOXES
\* and the box after MAX_EMPTY_BOXES consecutive empty ones is never requested.
C8_SweepStopsAfterMaxEmpty ==
  [][/\ requests' # requests =>
          /\ consecutiveEmpty < MAX_EMPTY_BOXES
          /\ requests' = requests + 1
          /\ consecutiveEmpty' = IF newStoresLen' > 0 THEN 0 ELSE consecutiveEmpty + 1
     /\ (requests' = requests /\ apiPc = "sweep") => consecutiveEmpty' = consecutiveEmpty
     /\ consecutiveEmpty' <= MAX_EMPTY_BOXES]_vars

\* C8 witness: the sweep ended after MAX_EMPTY_BOXES consecutive empty boxes,
\* which followed a box with records, leaving a box unrequested.
C8_Witness ==
  /\ apiPc = "done" /\ ~apiResult.thrown
  /\ consecutiveEmpty = MAX_EMPTY_BOXES
  /\ Len(apiStores) > 0
  /\ requests = MAX_EMPTY_BOXES + 1 /\ boxIndex = requests /\ boxIndex < landBoxes

\* What makes $$eval reject: a frame that went away, a selector the engine
\* cannot parse, or Object.entries of a missing fields map on a matched element.
EvalThrows(ctx, live, pattern) ==
  \/ ctx = "detached"
  \/ pattern.itemSelector = "invalid"
  \/ (Len(live.items) > 0 /\ ~pattern.hasFields)

\* C11: when the evaluation of the item selector or of the field map inside
\* the live context throws, extractWithPuppeteer returns the empty list and
\* throws nothing.
C11_PuppeteerFailsSoft ==
  (PuppeteerRan /\ ~NoItemSelector(exPattern) /\ EvalThrows(exCtx, exDoc, exPattern)) =>
    exPuppeteer = Returned(<<>>)

\* C11 witness: live extraction ran in a detached frame with a descriptor and
\* a document that give a record in a frame that is there.
C11_Witness ==
  /\ PuppeteerRan /\ exCtx = "detached" /\ ~NoItemSelector(exPattern)
  /\ extractWithPuppeteer("frame", exDoc, exPattern).value # <<>>
  /\ exPuppeteer = Returned(<<>>)

\* A segment of the path is missing: walking the own properties of the parsed
\* data, the value reached at some segment is no object (null and undefined
\* included) or does not own the segment.
RECURSIVE SegmentMissing(_, _, _)
SegmentMissing(v, parts, i) ==
  /\ i <= Len(parts)
  /\ \/ v.t # "obj"
     \/ parts[i] \notin OwnKeys
     \/ v.own[parts[i]] = JAbsent
     \/ SegmentMissing(v.own[parts[i]], parts, i + 1)

\* C12, as claimed: getValueByPath returns '' for a path that is null, empty
\* or no string, and whenever a segment of the path is missing from the data
\* or an intermediate value is null or undefined.
C12_MissingSegmentGivesEmpty ==
  (gvPc = "returned" /\ (gvPath.k # "str" \/ SegmentMissing(gvObj, gvPath.parts, 1))) =>
    gvOut = JEmpty

\* What JSON.parse makes of a string value written as text.
Decoded(text) == parseStringBody(text \o <<Quote>>, 1, <<>>).val

\* The records of the payload, as arr.forEach would push them.
PayloadStores(payload) == [k \in 1..Len(payload) |-> scriptStore(Decoded(payload[k]))]

Embedded == sdKeep = Len(Blob(sdPayload))

\* C13, as claimed: from a script text that holds the whole object between
\* other text, extract recovers exactly the records of its stores array; from
\* one that ends inside the object it recovers none; it throws in neither case.
C13_EmbeddedObjectRecovered ==
  sdPc = "returned" =>
    /\ ~sdOut.thrown
    /\ Embedded => sdOut.value = PayloadStores(sdPayload)
    /\ (~Embedded /\ sdSuffix = <<>>) => sdOut.value = <<>>

\* C14, as claimed: for a payload whose string values hold braces or escaped
\* quotes, the slice ends at the brace that closes the object and the records
\* are recovered unchanged.
C14_BracesInStringsIgnored ==
  (sdPc = "returned" /\ Embedded
   /\ \E k \in 1..Len(sdPayload) : \E i \in 1..Len(sdPayload[k]) :
        sdPayload[k][i] \in {"{", "}", Quote}) =>
    sdOut.value = PayloadStores(sdPayload)

\* Points of the globe, every ten degrees, the poles and the date line included.
GlobePoints == {<<-90 + 10 * i, -180 + 10 * j>> : i \in 0..18, j \in 0..36}

\* C15: with 30-degree steps the loops build exactly 6 x 12 = 72 boxes before
\* the land filter; every box has ne_lat = min(sw_lat + step, 90), ne_lng =
\* min(sw_lng + step, 180) and its centre midway between its corners; and for
\* every positive step every point of the globe lies in some box built.
C15_GridCoversGlobe ==
  /\ \A k \in 1..Len(cells) :
       LET box == cells[k] IN
       /\ -90 <= box.sw_lat /\ box.sw_lat < 90 /\ -180 <= box.sw_lng /\ box.sw_lng < 180
       /\ box.ne_lat = (IF box.sw_lat + latStep < 90 THEN box.sw_lat + latStep ELSE 90)
       /\ box.ne_lng = (IF box.sw_lng + lngStep < 180 THEN box.sw_lng + lngStep ELSE 180)
       /\ box.center_lat = box.sw_lat + box.ne_lat
       /\ box.center_lng = box.sw_lng + box.ne_lng
  /\ gridPc = "returned" =>
       /\ (latStep = 30 /\ lngStep = 30) => Len(cells) = 72
       /\ \A k1, k2 \in 1..Len(cells) :
            (cells[k1].sw_lat = cells[k2].sw_lat /\ cells[k1].sw_lng = cells[k2].sw_lng)
              => k1 = k2
       /\ \A p \in GlobePoints :
            \E k \in 1..Len(cells) :
              /\ cells[k].sw_lat <= p[1] /\ p[1] <= cells[k].ne_lat
              /\ cells[k].sw_lng <= p[2] /\ p[2] <= cells[k].ne_lng

\* C15 witness: the grid of the configured steps was built, with 72 boxes, and
\* the geocoder placed some of them in the ocean.
C15_Witness ==
  /\ gridPc = "returned" /\ latStep = GRID_LAT_STEP /\ lngStep = GRID_LNG_STEP
  /\ Len(cells) = 72 /\ Len(boxes) = 36

\* The oracle failed: the request threw on every attempt, or its reply has no
\* content or content that is no JSON.
OracleFailed == orReply.kind \in {"error", "nobody", "unparsable"}

\* C17: when the oracle fails, and when detectHTMLPattern is given an empty
\* html, the detector throws nothing and returns a neutral value:
\* detectHTMLPattern the fallback descriptor, detectCoordinateAPI and
\* detectApiDataMapping null.
C17_OracleFailureIsNeutral ==
  (orPc = "returned" /\ (OracleFailed \/ (orDetector = "html" /\ orEmpty))) =>
    /\ orDetector = "html" => orOut = getFallbackPattern
    /\ orDetector = "api" => orOut = NullInfo
    /\ orDetector = "mapping" => orOut = "null"

\* C17 witness: detectHTMLPattern returned after withRetry gave up on its last
\* attempt.
C17_Witness ==
  /\ orPc = "returned" /\ orDetector = "html" /\ ~orEmpty
  /\ orAttempt = RETRY_COUNT - 1 /\ orReply = OracleError
  /\ orOut = getFallbackPattern

\* The effects Interactive Expansion can have on the site.
ExpansionEffects == {"showMoreClick", "redetect", "searchType", "searchClick"}

\* C16, as claimed: a run on the site whose only record source is one JSON-LD
\* LocalBusiness, and in which no step failed into the catch of scrape, ends
\* with exactly that one record, source "json-ld", as its normalized output.
C16_JsonLdEndToEnd ==
  (pc = "returned" /\ url = "acme" /\ ~caught) => processed = <<AcmeStore>>

\* C18, as claimed: when Multi-Source Extraction ended with 200 or more
\* candidates, the run clicks no show-more button, types into no search
\* input, clicks no search button and re-detects no pattern.
C18_ExpansionSkippedWhenSufficient ==
  foundHtml >= SUFFICIENT_STORES => effects \cap ExpansionEffects = {}

\* C19: fetchWithCoordinateAPI is called only with fewer than 200 candidates
\* and a descriptor that has hasCoordinateAPI true and a non-empty apiTemplate;
\* from a state with 200 or more candidates no step asks the API-descriptor
\* oracle, starts the call or issues a request.
C19_SweepOnlyWhenNeededAndDetected ==
  [][/\ (apiPc = "idle" /\ apiPc' = "called") =>
          /\ Len(allStores) < SUFFICIENT_STORES
          /\ ~apiInfo.null
          /\ apiInfo.hasCoordinateAPI
          /\ apiInfo.apiTemplate \notin {"absent", "empty"}
     /\ Len(allStores) >= SUFFICIENT_STORES =>
          /\ "apiOracle" \in effects' => "apiOracle" \in effects
          /\ apiPc' = "idle"
          /\ requests' = requests]_vars

\* C19 witness: the call was made one candidate short of 200, with a
\* descriptor the oracle returned for captured responses.
C19_Witness ==
  /\ pc = "fetching" /\ apiPc = "called"
  /\ Len(allStores) = SUFFICIENT_STORES - 1
  /\ "apiOracle" \in effects
  /\ apiInfo.hasCoordinateAPI /\ apiInfo.apiTemplate = "url"

\* C20, as claimed: within one call of fetchWithCoordinateAPI the mapping
\* oracle detectApiDataMapping is asked at most once, whatever it answers.
C20_MappingAskedAtMostOnce ==
  mappingCalls <= 1

\* C21, as claimed: every request of the sweep but the first is preceded by
\* a sleep of RATE_LIMIT_DELAY that ran after the request before it, whether
\* that request succeeded or failed.
C21_SleepBetweenSweepRequests ==
  [][(requests' = requests + 1 /\ requests >= 1) => rateSlept]_vars

\* C22, as claimed: the latitude and the longitude of every record that
\* mapItemWithDynamicPattern returns are each a number or null.
C22_CoordinatesNumericOrNull ==
  mpPc = "returned" =>
    \A key \in CoordinateKeys : mpStore[key] \in {JNum, JNull}

\* The first call of detectApiDataMapping of this call of
\* fetchWithCoordinateAPI returned null: the oracle is asked again only then.
FirstInferenceFailed ==
  mappingCalls >= 2 \/ (mappingCalls = 1 /\ dynamicMapping = "null")

\* C23, as claimed: when the mapping oracle failed on the first response that
\* held records, fetchWithCoordinateAPI, given a template that is a URL,
\* returns the empty list and does not throw.
C23_FailedInferenceYieldsNothing ==
  (apiPc = "done" /\ apiTemplate = "url" /\ FirstInferenceFailed) =>
    apiResult = Returned(<<>>)

\* C24: the call begins with the direct request.  A step that ends the call
\* from there returns more than 50 records, with no grid built and no box
\* requested; every other step from there goes on to build the grid, after
\* which the sweep runs; and no box is requested before the direct request.
C24_DirectCallShortcut ==
  [][/\ apiPc = "called" => (apiPc' = "direct" \/ apiResult'.thrown)
     /\ apiPc = "direct" =>
          \/ /\ apiPc' = "done" /\ ~apiResult'.thrown
             /\ Len(apiResult'.value) > 50
             /\ landBoxes' = 0 /\ requests' = 0
          \/ apiPc' = "grid"
     /\ apiPc = "grid" => apiPc' = "sweep"
     /\ requests' > requests => apiPc = "sweep"]_vars

\* C24 witness: the direct call returned 51 records and the call ended with
\* them, although land boxes were there to sweep.
C24_Witness ==
  /\ apiPc = "done" /\ Len(apiResult.value) = 51
  /\ landCells > 0 /\ landBoxes = 0 /\ requests = 0

\* C25, as claimed: of two boxes that follow each other in the list the sweep
\* goes through, the later one is in the same latitude band and further
\* east, or in a band further south.
C25_RowsNorthToSouth ==
  \A k \in 1..(Len(boxes) - 1) :
    \/ boxes[k + 1].sw_lat = boxes[k].sw_lat /\ boxes[k + 1].sw_lng > boxes[k].sw_lng
    \/ boxes[k + 1].sw_lat < boxes[k].sw_lat

\* C25, amended: of two boxes that follow each other in the list the sweep
\* goes through, the later one is in the same latitude band and further
\* east, or in a band further north.
C25_RowsSouthToNorth ==
  \A k \in 1..(Len(boxes) - 1) :
    \/ boxes[k + 1].sw_lat = boxes[k].sw_lat /\ boxes[k + 1].sw_lng > boxes[k].sw_lng
    \/ boxes[k + 1].sw_lat > boxes[k].sw_lat

\* C25 witness: the list returned holds a box followed by the westernmost box
\* of the next band, and a box followed by its eastern neighbour.
C25_Witness ==
  /\ gridPc = "returned"
  /\ \E k \in 1..(Len(boxes) - 1) :
       boxes[k + 1].sw_lat > boxes[k].sw_lat /\ boxes[k + 1].sw_lng = -180
  /\ \E k \in 1..(Len(boxes) - 1) :
       boxes[k + 1].sw_lat = boxes[k].sw_lat /\ boxes[k + 1].sw_lng > boxes[k].sw_lng

\* C26: withRetry invokes fn at most retries times; it returns the value of
\* the first invocation that resolves, all the earlier ones having thrown; it
\* has slept RETRY_DELAY x k after the k-th failure, for each k below retries;
\* and after the retries-th failure in a row it rethrows the error of that
\* invocation, having slept retries - 1 times.
C26_RetryLinearBackoff ==
  /\ rtCalls <= rtRetries
  /\ rtSleeps = [k \in 1..Len(rtSleeps) |-> RETRY_DELAY * k]
  /\ \A k \in 1..Len(rtSleeps) : k < rtRetries /\ rtPlan[k] = "throws"
  /\ rtPc = "loop" => Len(rtSleeps) = rtCalls
  /\ rtOut.kind = "value" =>
       /\ rtOut.call = rtCalls /\ rtPlan[rtCalls] = "resolves"
       /\ Len(rtSleeps) = rtCalls - 1
  /\ rtOut.kind = "thrown" =>
       /\ rtOut.call = rtRetries /\ rtCalls = rtRetries
       /\ Len(rtSleeps) = rtRetries - 1
  /\ (rtOut.kind = "undefined") => rtRetries = 0

\* C26 witness: with the default retries every invocation threw; the call
\* slept 2000 and 4000 ms and rethrew the third error.
C26_Witness ==
  /\ rtPc = "returned" /\ rtRetries = RETRY_COUNT
  /\ rtOut = [kind |-> "thrown", call |-> 3]
  /\ rtSleeps = <<2000, 4000>>

\* C29: Phase 2 asks the pattern oracle once; the gate is bypassed only for a
\* descriptor that has an initialButtonSelector; the second detection follows
\* the bypass only, and Phase 3 follows the second detection whatever its
\* descriptor holds; and a bypass that fails goes on to Phase 3 with the
\* descriptor and the contexts of before.
C29_GateRerunsDetectionOnce ==
  [][/\ pc' = "detect" => pc = "assemble"
     /\ pc' = "gate" => pc = "detect"
     /\ pc' = "bypass" =>
          (pc = "gate" /\ ~htmlPattern.null /\ htmlPattern.initialButtonSelector)
     /\ pc' = "redetect" => pc = "bypass"
     /\ pc = "redetect" => (pc' = "extract" /\ iframeContexts' = iframeContexts)
     /\ pc \in {"gate", "bypass"} => htmlPattern' = htmlPattern
     /\ (pc = "bypass" /\ pc' # "redetect") =>
          (pc' = "extract" /\ iframeContexts' = iframeContexts)
     /\ (pc = "gate" /\ ~htmlPattern.null /\ ~htmlPattern.initialButtonSelector) =>
          pc' = "extract"]_vars

\* C29 witness: for a descriptor with an initialButtonSelector the gate was
\* clicked, the page reloaded and its frames assembled again, and the second
\* detection is what comes next.
C29_Witness ==
  /\ pc = "redetect" /\ acquired /\ iframeContexts = MaxFrames
  /\ ~htmlPattern.null /\ htmlPattern.initialButtonSelector

\* The places of a call of scrape, in the order of the text of scrape.
PcOrder ==
  <<"called", "initialize", "goto", "assemble", "detect", "gate", "bypass",
    "redetect", "extract", "showMore", "showMoreLoop", "search", "api",
    "apiDetected", "fetching", "final", "cleanup", "returned">>

Rank(p) == CHOOSE k \in 1..Len(PcOrder) : PcOrder[k] = p

\* The phase a place belongs to: 1 Document Acquisition, 2 Context Assembly,
\* 3 Pattern Detection, 4 Multi-Source Extraction, 5 Interactive Expansion,
\* 6 API Fallback, 7 Normalization; 0 before the first and 8 after the last.
PhaseOf(p) ==
  IF p \in {"called", "initialize"} THEN 0
  ELSE IF p = "goto" THEN 1
  ELSE IF p \in {"assemble", "bypass"} THEN 2
  ELSE IF p \in {"detect", "gate", "redetect"} THEN 3
  ELSE IF p = "extract" THEN 4
  ELSE IF p \in {"showMore", "showMoreLoop", "search"} THEN 5
  ELSE IF p \in {"api", "apiDetected", "fetching"} THEN 6
  ELSE IF p = "final" THEN 7
  ELSE 8

\* C30: a step of scrape stays at its place or moves to a later one, so no
\* place is come back to; the phase of the later place is the same, or the
\* next one, or the end of the run, but for the gate, whose bypass goes back
\* from Pattern Detection to Context Assembly once and on failing goes on to
\* Multi-Source Extraction; and nothing follows Normalization but the end.
C30_PhasesInOrder ==
  [][LET a == PhaseOf(pc)
         b == PhaseOf(pc')
     IN /\ pc' = pc \/ Rank(pc') > Rank(pc)
        /\ b < a => (pc = "gate" /\ pc' = "bypass")
        /\ b > a => (b = a + 1 \/ b = 8 \/ pc = "bypass")
        /\ a >= 7 => b = 8]_vars

\* C30 witness: a run reached Normalization after clicks on the show-more
\* button, a search probe that typed and clicked, and a question to the API
\* oracle.
C30_Witness ==
  /\ pc = "final"
  /\ {"showMoreClick", "searchClick", "apiOracle"} \subseteq effects

\* C28, as claimed: when a probe found the input and the button, typed the
\* city and clicked, the pattern oracle was asked again on the updated content
\* before the run went on to Phase 4.
C28_ProbeRedetects ==
  (pc = "api" /\ "searchClick" \in effects) => "searchDetect" \in effects

\* C27: clicks never exceeds 20 in a context; a step of the while loop that
\* adds no click ends the loop of that context; and the step after the end of
\* the loop, whether the cap or a failure ended it, is the re-extraction from
\* that same context, which yields its records unless the content of the
\* context cannot be read or the static extraction throws.
C27_ShowMoreBounded ==
  [][/\ smClicks' <= 20
     /\ \A k \in 1..Len(smLog') : smLog'[k].clicks <= 20 /\ smLog'[k].ctx = k - 1
     /\ (smPc = "clicking" /\ smClicks' = smClicks) =>
          (smPc' = "reextract" /\ smCtx' = smCtx /\ smStop' \in {"cap", "failure"})
     /\ (smPc = "clicking" /\ smPc' # "clicking") =>
          (smPc' = "reextract" /\ smCtx' = smCtx)
     /\ smPc = "reextract" =>
          /\ Len(smLog') = Len(smLog) + 1
          /\ LET e == smLog'[Len(smLog')]
             IN /\ e.ctx = smCtx /\ e.clicks = smClicks /\ e.stop = smStop
                /\ e.outcome \in {"extracted", "gone", "threw"}]_vars

\* C27 witness: the main page was re-extracted after 20 clicks and the cap,
\* and the first iframe context after 3 clicks and a failure.
C27_Witness ==
  /\ smPc = "done" /\ Len(smLog) = 2
  /\ smLog[1] = [ctx |-> 0, clicks |-> 20, stop |-> "cap", outcome |-> "extracted"]
  /\ smLog[2] = [ctx |-> 1, clicks |-> 3, stop |-> "failure", outcome |-> "extracted"]

\* The records of the object a script element of the model holds.
ElementStores(kind) ==
  IF kind = "one" THEN <<scriptStore(<<"A">>)>>
  ELSE IF kind = "two" THEN <<scriptStore(<<"{">>), scriptStore(<<"A">>)>>
  ELSE <<>>

RECURSIVE DocumentStores(_, _)
DocumentStores(blocks, n) ==
  IF n = 0 THEN <<>> ELSE DocumentStores(blocks, n - 1) \o ElementStores(blocks[n])

\* C31: extract never leaves by an exception of JSON.parse; an element whose
\* slice JSON.parse rejects adds no record; and after every element the stores
\* are the records of the elements before it, in order, so that the records of
\* the elements before and after a rejected one are all returned.
C31_ParseFailureDiscardsBlockOnly ==
  /\ sbPc \in {"idle", "each", "returned"}
  /\ \A k \in 1..Len(sbBlocks) : sbBlocks[k] = "broken" <=> parseThrows(ScriptElement(sbBlocks[k]))
  /\ sbPc = "each" => sbStores = DocumentStores(sbBlocks, sbI - 1)
  /\ sbPc = "returned" => sbStores = DocumentStores(sbBlocks, Len(sbBlocks))

\* C31 witness: of three script elements the second was rejected by JSON.parse
\* and the records of the first and of the third were returned.
C31_Witness ==
  /\ sbPc = "returned" /\ sbBlocks = <<"one", "broken", "two">>
  /\ parseThrows(ScriptElement("broken"))
  /\ sbStores = <<scriptStore(<<"A">>), scriptStore(<<"{">>), scriptStore(<<"A">>)>>

\* The parsed object has neither a stores array nor a page.items array.
FallbackUsed(obj) ==
  /\ ~isArray(PGet(obj, "stores"))
  /\ ~(PTruthy(PGet(obj, "page")) /\ isArray(PGet(PGet(obj, "page"), "items")))

\* C32, as claimed: the array the fallback search returns starts with an
\* object that is not null, and steps 5 and 6 throw for no parsed object.
C32_FallbackNeverFaults ==
  ffPc \in {"collected", "thrown"} =>
    /\ ~ffOut.thrown
    /\ (FallbackUsed(ffObj) /\ isArray(storeArray(ffObj))) =>
         storeArray(ffObj).e[1].t \in {"obj", "arr"}

\* The fields an item can hold at the top level and inside its address.
NestedFields ==
  {<<"city", "city">>, <<"postal_code", "zipcode">>, <<"country", "country">>}

\* The element has a non-empty value for the field both at the top level and
\* inside its address.
HasBoth(s, f) ==
  /\ ~Nullish(s) /\ PTruthy(PGet(s, f[1]))
  /\ PTruthy(PGetOptional(PGet(s, "address"), f[2]))

\* C33, as claimed: a record made from an item that has a value for a field
\* at the top level and inside its address takes the value of the address.
C33_NestedPreferred ==
  ffPc = "collected" =>
    \A k \in 1..Len(ffOut.value) : \A f \in NestedFields :
      LET s == storeArray(ffObj).e[k] IN
      HasBoth(s, f) => ffOut.value[k][f[1]] = PGet(PGet(s, "address"), f[2])

\* C33, amended: such a record takes the top-level value; the value inside
\* the address is taken when the top-level one is absent or empty, and the
\* field is '' when both are.
C33_TopLevelPreferred ==
  ffPc = "collected" =>
    \A k \in 1..Len(ffOut.value) : \A f \in NestedFields :
      LET s == storeArray(ffObj).e[k]
          top == PGet(s, f[1])
          nested == PGetOptional(PGet(s, "address"), f[2])
      IN ffOut.value[k][f[1]] =
           (IF PTruthy(top) THEN top ELSE IF PTruthy(nested) THEN nested ELSE PString(<<>>))

\* C33 witness: an item with city, postal_code and country at the top level
\* and city, zipcode and country inside its address was normalized.
C33_Witness ==
  /\ ffPc = "collected" /\ Len(ffOut.value) = 1
  /\ \A f \in NestedFields : HasBoth(storeArray(ffObj).e[1], f)
  /\ ffOut.value[1].city = PString(<<"top">>)

\* The number of records of the list for which the test holds.
CountOf(list, Test(_)) == Cardinality({k \in 1..Len(list) : Test(list[k])})

RECURSIVE SumOf(_, _)
SumOf(f, keys) ==
  IF keys = {} THEN 0
  ELSE LET key == CHOOSE key \in keys : TRUE IN f[key] + SumOf(f, keys \ {key})

\* C35, as claimed: total is the number of records; by_source counts the
\* records of each source tag and sums to total; with_coordinates is the
\* number of records whose latitude and longitude are both not null, 0
\* included, and is at most total.
C35_StatsCountCoordinates ==
  csPc = "returned" =>
    /\ stats.total = Len(csStores)
    /\ \A tag \in DOMAIN stats.by_source :
         LET tagged(store) == store.source = tag
         IN stats.by_source[tag] = CountOf(csStores, tagged)
    /\ SumOf(stats.by_source, DOMAIN stats.by_source) = stats.total
    /\ LET located(store) == store.latitude # "null" /\ store.longitude # "null"
       IN stats.with_coordinates = CountOf(csStores, located)
    /\ stats.with_coordinates <= stats.total

\* C34: every entry of apiResponses is of a response whose host is not
\* ignored, whose content type is JSON or HTML and whose body was read in
\* time, once per response; a read that times out or rejects ends the
\* callback with apiResponses as it was; no callback ends in an exception it
\* does not catch, and none changes the phase the orchestrator is in.
C34_OnlyTimelyBodiesCaptured ==
  [][/\ \A k \in 1..Len(apiResponses') :
          LET e == apiResponses'[k]  r == rsSeen'[e.response] IN
          /\ r.host = "other" /\ r.type \in {"json", "html"}
          /\ e.contentType = (IF r.type = "json" THEN "application/json" ELSE "text/html")
          /\ rsEnd'[e.response] = "pushed"
          /\ \A j \in 1..Len(apiResponses') : apiResponses'[j].response = e.response => j = k
     /\ \A i \in 1..Len(rsSeen') :
          /\ rsPc'[i] \in {"start", "json", "text", "done"}
          /\ (i <= Len(rsSeen) /\ rsPc[i] # "done" /\ rsPc'[i] = "done"
              /\ rsEnd'[i] \in {"timeout", "rejects", "falsy", "caught", "skipped", "untyped"})
               => apiResponses' = apiResponses
     /\ rsPc' # rsPc => rsPhase' = rsPhase]_vars

\* C34 witness: in the third phase one response was captured and the read
\* of another body timed out.
C34_Witness ==
  /\ rsPhase = 3 /\ Len(rsSeen) = 2
  /\ rsEnd = <<"timeout", "pushed">> /\ Len(apiResponses) = 1

\* C36, as claimed: Phase 5 completes for every candidate list, those with a
\* record whose name is a number or an object included.
C36_NormalizationNeverRaises ==
  dpPc = "normalized" => (~dpOut.thrown /\ Len(dpOut.value) <= Len(dpIn))

\* C37, as claimed: for every step size the configuration accepts, negative
\* ones and ones larger than the range included, generateCoordinateGrid
\* returns.
C37_GridTerminates == <>(loopPc = "returned")

\* C38, as claimed: after a click and a reload that succeeded, the second
\* detection is made on the document read after the click, and Cheerio on the
\* main document and the scan of the inline scripts in Phase 3 read that
\* document too, never the one read before the click.
C38_PostClickSnapshotUsed ==
  (snapPc = "extracted" /\ postClickHtml # 0 /\ Len(detectedOn) = 2) =>
    /\ detectedOn[2].main = postClickHtml /\ detectedOn[2].framesOf = postClickHtml
    /\ phase3Read.cheerio = postClickHtml
    /\ phase3Read.scripts.main = postClickHtml
    /\ phase3Read.scripts.framesOf = postClickHtml

\* C39: when scrape returns a result, a success or a failure, no browser that
\* initialize launched is open; a browser is closed only by the cleanup of the
\* finally, which finds it open, and a closed browser is never closed or used
\* again.
C39_BrowserClosedOnce ==
  [][/\ (pc' = "returned" /\ result' \in {"success", "failure"}) => browser' # "open"
     /\ (browser' = "closed" /\ browser # "closed") => (browser = "open" /\ pc = "cleanup")
     /\ browser = "closed" => (browser' = "closed" /\ pc = "returned")
     /\ (pc = "cleanup" /\ browser = "none") => browser' = "none"]_vars

\* C39 witness: initialize launched a browser, the run failed before the page
\* was loaded, and scrape returned the failure with the browser closed.
C39_Witness ==
  pc = "returned" /\ result = "failure" /\ browser = "closed" /\ ~acquired

====
